---------------------------- MODULE Spec2Model ----------------------------
(***************************************************************************)
(* ft-flags: Cargo-style feature manifests.                                *)
(*                                                                         *)
(* The module models the manifest engine of src/src/manifest.ts (first     *)
(* generation in that file, lines 1-1097): resolveFeatures with its inner  *)
(* enable() closure as a step machine with an explicit call stack,         *)
(* validateManifest with the helpers it calls, getEnableChain, the         *)
(* identifier rules of types.ts, parseManifest and toRawConfig on raw       *)
(* configs with JavaScript's property order, buildFeatureTree as a step    *)
(* machine, calls on independent manifests interleaved step by step, the   *)
(* feature registry of src/src/registry.ts with its registries kept in a   *)
(* heap (single calls and sequences of calls), and requireFeature of       *)
(* registry.ts and evaluate.ts.                                            *)
(*                                                                         *)
(* A name (feature name, activation target, package name) is the sequence  *)
(* of its characters, so that prefix tests, separators and the kebab-case  *)
(* pattern are computed on the text the way the code computes them.        *)
(***************************************************************************)
EXTENDS Naturals, Sequences, FiniteSets, TLC

VARIABLES
    manifest,   \* FeatureManifest: [order, features, metadata]
    options,    \* ResolveOptions: [features, noDefaultFeatures, allFeatures]
    pc,         \* position of the running call
    idx,        \* index of the driver loop of resolveFeatures (1-based)
    enabled,    \* resolveFeatures: const enabled = new Set<string>()
    enabledBy,  \* resolveFeatures: const enabledBy = new Map<string, string[]>()
    stack,      \* call stack of enable(): frames [feature, next]
    expansions, \* history: how often the targets of each feature were expanded
    voptions,   \* ValidateOptions of the validateManifest call, <<>> if none
    errors,     \* validateManifest: const errors: string[] = []
    warnings,   \* validateManifest: const warnings: string[] = []
    validation, \* the ManifestValidation returned, <<>> before the return
    exit,       \* exit code of the validate command, <<>> before it ends
    call,       \* the last call of a function of the API: [op, args, result]
                \* (in a sequence of calls also earlier: the calls before it)
    heap,       \* the objects allocated so far, by reference: registries,
                \* or the frames of the calls that are not running
    tree        \* buildFeatureTree: the nodes it returns, as built so far

vars == <<manifest, options, pc, idx, enabled, enabledBy, stack, expansions,
          voptions, errors, warnings, validation, exit, call, heap, tree>>

\* The state of a validateManifest call, which resolveFeatures never touches,
\* and the state of a resolveFeatures call, which validateManifest never
\* touches.
validateVars == <<voptions, errors, warnings, validation, exit>>
resolveVars == <<options, enabled, enabledBy, stack, expansions>>

\* The state of the calls of the other functions of the API, which neither
\* of the two touches, and the state they leave alone.
apiVars == <<call, heap, tree>>
engineVars == <<manifest, pc, idx, resolveVars, validateVars>>

-----------------------------------------------------------------------------
(* Names *)

default == <<"d", "e", "f", "a", "u", "l", "t">>
fa == <<"a">>
fb == <<"b">>
fc == <<"c">>
depx == <<"d", "e", "p", ":", "x">>

pf == <<"p", ":", "f">>
scopedRef == <<"@", "s", "/", "p", ":", "f">>
upperName == <<"B">>
dottedName == <<"a", ".", "b">>
depEmpty == <<"d", "e", "p", ":">>
depUpper == <<"d", "e", "p", ":", "X">>
noPackageRef == <<":", "f">>
noFeatureRef == <<"p", ":">>
badPackageRef == <<"P", ":", "f">>
badFeatureRef == <<"p", ":", "F">>
pkgX == <<"x">>
pkgP == <<"p">>
pkgScoped == <<"@", "s", "/", "p">>

\* The sentinel causes of resolveFeatures.
CauseDefault == <<"<", "d", "e", "f", "a", "u", "l", "t", ">">>
CauseExplicit == <<"<", "e", "x", "p", "l", "i", "c", "i", "t", ">">>
CauseAllFeatures ==
    <<"<", "a", "l", "l", "-", "f", "e", "a", "t", "u", "r", "e", "s", ">">>
Sentinels == {CauseDefault, CauseExplicit, CauseAllFeatures}

-----------------------------------------------------------------------------
(* Bounds *)

\* Longest activation list of a feature.
MaxDeps == 2
\* Most activation-list entries of a whole manifest.
MaxEdges == 4
\* Longest options.features list.
MaxRequested == 2

-----------------------------------------------------------------------------
(* Helpers on sequences and maps *)

Range(s) == {s[i] : i \in 1..Len(s)}

\* Array.prototype.includes
Includes(s, x) == \E i \in 1..Len(s) : s[i] = x

SeqsUpTo(S, n) == UNION {[1..k -> S] : k \in 0..n}

\* Map.prototype.set on a map kept as a function
MapSet(map, k, v) == [x \in DOMAIN map \cup {k} |-> IF x = k THEN v ELSE map[x]]

\* Map.prototype.get(k) ?? []
MapGetOrEmpty(map, k) == IF k \in DOMAIN map THEN map[k] ELSE <<>>

Min(a, b) == IF a <= b THEN a ELSE b

\* The maps from the names D to lists over T, with at most perList entries
\* in a list and total entries in all lists together.
RECURSIVE ListsOver(_, _, _, _)
ListsOver(D, T, perList, total) ==
    IF D = {} THEN {<<>>}
    ELSE LET x == CHOOSE y \in D : TRUE
         IN UNION {{(x :> l) @@ g :
                        g \in ListsOver(D \ {x}, T, perList, total - Len(l))} :
                    l \in SeqsUpTo(T, Min(perList, total))}

-----------------------------------------------------------------------------
(* Manifest *)

\* manifest.features.has(name)
Has(m, name) == name \in DOMAIN m.features

\* manifest.features.get(name) ?? []
Deps(m, name) == MapGetOrEmpty(m.features, name)

\* [...manifest.features.keys()], in insertion order
Keys(m) == m.order

-----------------------------------------------------------------------------
(* resolveFeatures *)

\* Variants of enable() with one plausible slip each.
\* (1) the transitive loop is missing: targets are never enabled.
Enable_NoRecurse(m, st, feature, by) ==
    IF ~Has(m, feature) THEN st
    ELSE [st EXCEPT !.enabled = @ \cup {feature},
                    !.enabledBy = MapSet(@, feature,
                        IF Includes(MapGetOrEmpty(@, feature), by)
                        THEN MapGetOrEmpty(@, feature)
                        ELSE Append(MapGetOrEmpty(@, feature), by))]

\* (2) the "already enabled" check is missing: targets are expanded again.
Enable_NoSeenCheck(m, st, feature, by) ==
    IF ~Has(m, feature) THEN st
    ELSE [enabled |-> st.enabled \cup {feature},
          enabledBy |-> MapSet(st.enabledBy, feature,
              IF Includes(MapGetOrEmpty(st.enabledBy, feature), by)
              THEN MapGetOrEmpty(st.enabledBy, feature)
              ELSE Append(MapGetOrEmpty(st.enabledBy, feature), by)),
          stack |-> Append(st.stack, [feature |-> feature, next |-> 1]),
          expansions |-> [st.expansions EXCEPT ![feature] = @ + 1]]

\* (3) "already enabled" is taken from the whole set: once anything is
\* enabled nothing is expanded any more.
Enable_SeenAny(m, st, feature, by) ==
    IF ~Has(m, feature) THEN st
    ELSE
        LET newEnabledBy == MapSet(st.enabledBy, feature,
              IF Includes(MapGetOrEmpty(st.enabledBy, feature), by)
              THEN MapGetOrEmpty(st.enabledBy, feature)
              ELSE Append(MapGetOrEmpty(st.enabledBy, feature), by))
        IN  IF st.enabled # {}
            THEN [st EXCEPT !.enabled = @ \cup {feature},
                            !.enabledBy = newEnabledBy]
            ELSE [enabled |-> st.enabled \cup {feature},
                  enabledBy |-> newEnabledBy,
                  stack |-> Append(st.stack, [feature |-> feature, next |-> 1]),
                  expansions |-> [st.expansions EXCEPT ![feature] = @ + 1]]

\* (4) the "declared in the manifest" check is missing.
Enable_NoDeclaredCheck(m, st, feature, by) ==
    LET newEnabledBy == MapSet(st.enabledBy, feature,
          IF Includes(MapGetOrEmpty(st.enabledBy, feature), by)
          THEN MapGetOrEmpty(st.enabledBy, feature)
          ELSE Append(MapGetOrEmpty(st.enabledBy, feature), by))
    IN  IF feature \in st.enabled
        THEN [st EXCEPT !.enabledBy = newEnabledBy]
        ELSE [enabled |-> st.enabled \cup {feature},
              enabledBy |-> newEnabledBy,
              stack |-> Append(st.stack, [feature |-> feature, next |-> 1]),
              expansions |-> st.expansions]

\* (5) the reasons.includes(by) check is missing: causes are recorded twice.
Enable_NoIncludesCheck(m, st, feature, by) ==
    IF ~Has(m, feature) THEN st
    ELSE
        LET newEnabledBy == MapSet(st.enabledBy, feature,
              Append(MapGetOrEmpty(st.enabledBy, feature), by))
        IN  IF feature \in st.enabled
            THEN [st EXCEPT !.enabledBy = newEnabledBy]
            ELSE [enabled |-> st.enabled \cup {feature},
                  enabledBy |-> newEnabledBy,
                  stack |-> Append(st.stack, [feature |-> feature, next |-> 1]),
                  expansions |-> [st.expansions EXCEPT ![feature] = @ + 1]]

\* The inner closure enable(feature, by), up to the point where it starts
\* its loop over the activation list: st is [enabled, enabledBy, stack,
\* expansions]; a feature that was not enabled before gets a frame whose
\* loop the later steps run.
Enable(m, st, feature, by) ==
    IF ~Has(m, feature) THEN st
    ELSE
        LET wasEnabled == feature \in st.enabled
            reasons == MapGetOrEmpty(st.enabledBy, feature)
            newEnabledBy ==
                IF ~Includes(reasons, by)
                THEN MapSet(st.enabledBy, feature, Append(reasons, by))
                ELSE st.enabledBy
        IN  IF wasEnabled
            THEN [st EXCEPT !.enabled = @ \cup {feature},
                            !.enabledBy = newEnabledBy]
            ELSE [enabled |-> st.enabled \cup {feature},
                  enabledBy |-> newEnabledBy,
                  stack |-> Append(st.stack, [feature |-> feature, next |-> 1]),
                  expansions |-> [st.expansions EXCEPT ![feature] = @ + 1]]

CallState == [enabled |-> enabled, enabledBy |-> enabledBy, stack |-> stack,
              expansions |-> expansions]

SetCallState(st) ==
    /\ enabled' = st.enabled
    /\ enabledBy' = st.enabledBy
    /\ stack' = st.stack
    /\ expansions' = st.expansions

Top == stack[Len(stack)]

\* Variant: options.allFeatures is not looked at.
ResolveBegin_IgnoreAll ==
    /\ pc = "resolve"
    /\ pc' = "default"
    /\ idx' = 1
    /\ UNCHANGED <<manifest, options, enabled, enabledBy, stack, expansions>>
    /\ UNCHANGED validateVars
    /\ UNCHANGED apiVars

\* resolveFeatures is entered: the branch on options.allFeatures.
ResolveBegin ==
    /\ pc = "resolve"
    /\ pc' = IF options.allFeatures THEN "all" ELSE "default"
    /\ idx' = 1
    /\ UNCHANGED <<manifest, options, enabled, enabledBy, stack, expansions>>
    /\ UNCHANGED validateVars
    /\ UNCHANGED apiVars

\* for (const name of manifest.features.keys()) enable(name, "<all-features>")
ResolveAll ==
    /\ pc = "all"
    /\ stack = <<>>
    /\ IF idx <= Len(Keys(manifest))
       THEN /\ SetCallState(Enable(manifest, CallState, Keys(manifest)[idx],
                                   CauseAllFeatures))
            /\ idx' = idx + 1
            /\ pc' = pc
       ELSE /\ pc' = "resolved"
            /\ UNCHANGED <<idx, enabled, enabledBy, stack, expansions>>
    /\ UNCHANGED <<manifest, options>>
    /\ UNCHANGED validateVars
    /\ UNCHANGED apiVars

\* Variant: options.noDefaultFeatures is not looked at.
ResolveDefault_IgnoreFlag ==
    /\ pc = "default"
    /\ IF Has(manifest, default)
       THEN SetCallState(Enable(manifest, CallState, default, CauseDefault))
       ELSE UNCHANGED <<enabled, enabledBy, stack, expansions>>
    /\ pc' = "explicit"
    /\ UNCHANGED <<manifest, options, idx>>
    /\ UNCHANGED validateVars
    /\ UNCHANGED apiVars

\* if (!options.noDefaultFeatures && manifest.features.has("default"))
\*   enable("default", "<default>")
ResolveDefault ==
    /\ pc = "default"
    /\ IF ~options.noDefaultFeatures /\ Has(manifest, default)
       THEN SetCallState(Enable(manifest, CallState, default, CauseDefault))
       ELSE UNCHANGED <<enabled, enabledBy, stack, expansions>>
    /\ pc' = "explicit"
    /\ UNCHANGED <<manifest, options, idx>>
    /\ UNCHANGED validateVars
    /\ UNCHANGED apiVars

\* for (const feature of options.features) enable(feature, "<explicit>")
ResolveExplicit ==
    /\ pc = "explicit"
    /\ stack = <<>>
    /\ IF idx <= Len(options.features)
       THEN /\ SetCallState(Enable(manifest, CallState, options.features[idx],
                                   CauseExplicit))
            /\ idx' = idx + 1
            /\ pc' = pc
       ELSE /\ pc' = "resolved"
            /\ UNCHANGED <<idx, enabled, enabledBy, stack, expansions>>
    /\ UNCHANGED <<manifest, options>>
    /\ UNCHANGED validateVars
    /\ UNCHANGED apiVars

\* One iteration of "for (const dep of deps) enable(dep, feature)" in the
\* innermost running enable().
EnableDep ==
    /\ stack # <<>>
    /\ Top.next <= Len(Deps(manifest, Top.feature))
    /\ LET dep == Deps(manifest, Top.feature)[Top.next]
           advanced == [stack EXCEPT ![Len(stack)].next = @ + 1]
       IN SetCallState(Enable(manifest, [CallState EXCEPT !.stack = advanced],
                              dep, Top.feature))
    /\ UNCHANGED <<manifest, options, pc, idx>>
    /\ UNCHANGED validateVars
    /\ UNCHANGED apiVars

\* The loop of the innermost enable() is over: it returns.
EnableReturn ==
    /\ stack # <<>>
    /\ Top.next > Len(Deps(manifest, Top.feature))
    /\ stack' = SubSeq(stack, 1, Len(stack) - 1)
    /\ UNCHANGED <<manifest, options, pc, idx, enabled, enabledBy, expansions>>
    /\ UNCHANGED validateVars
    /\ UNCHANGED apiVars

\* isFeatureEnabled(feature, resolved)
isFeatureEnabled(feature) == feature \in enabled

\* resolveFeatures as one function of its arguments: the same enable(), with
\* the loops run to their end.
RECURSIVE RunStack(_, _)
RunStack(m, st) ==
    IF st.stack = <<>> THEN st
    ELSE
        LET n == Len(st.stack)
            top == st.stack[n]
        IN  IF top.next <= Len(Deps(m, top.feature))
            THEN RunStack(m,
                    Enable(m, [st EXCEPT !.stack[n].next = @ + 1],
                           Deps(m, top.feature)[top.next], top.feature))
            ELSE RunStack(m, [st EXCEPT !.stack = SubSeq(@, 1, n - 1)])

RECURSIVE EnableEach(_, _, _, _)
EnableEach(m, st, names, by) ==
    IF names = <<>> THEN st
    ELSE EnableEach(m, RunStack(m, Enable(m, st, Head(names), by)),
                    Tail(names), by)

ResolveFeatures(m, o) ==
    LET st0 == [enabled |-> {}, enabledBy |-> <<>>, stack |-> <<>>,
                expansions |-> [f \in DOMAIN m.features |-> 0]]
        st1 ==
            IF o.allFeatures
            THEN EnableEach(m, st0, Keys(m), CauseAllFeatures)
            ELSE EnableEach(m,
                    IF ~o.noDefaultFeatures /\ Has(m, default)
                    THEN RunStack(m, Enable(m, st0, default, CauseDefault))
                    ELSE st0,
                    o.features, CauseExplicit)
    IN  [enabled |-> st1.enabled, enabledBy |-> st1.enabledBy,
         manifest |-> m, options |-> o]

-----------------------------------------------------------------------------
(* Inputs of the resolution runs *)

FeatureUniverse == {default, fa, fb, fc}
TargetUniverse == {fa, fb, fc, depx}
RequestUniverse == {fa, fb}

\* The insertion order of the declared names D: declaration order follows
\* NameOrder.
NameOrder ==
    <<default, fa, fb, fc, depx, pf, upperName, dottedName>>

RECURSIVE Restrict(_, _)
Restrict(s, D) ==
    IF s = <<>> THEN <<>>
    ELSE IF Head(s) \in D THEN <<Head(s)>> \o Restrict(Tail(s), D)
         ELSE Restrict(Tail(s), D)

\* Manifests over the declared names D with activation lists over T.
ManifestsOver(D, T, perList, total, metadata) ==
    {[order |-> Restrict(NameOrder, D), features |-> g,
      metadata |-> metadata] : g \in ListsOver(D, T, perList, total)}

ResolveManifests ==
    UNION {ManifestsOver(D, TargetUniverse, MaxDeps, MaxEdges, <<>>) :
            D \in SUBSET FeatureUniverse}

ResolveOptionsSet ==
    [features : SeqsUpTo(RequestUniverse, MaxRequested),
     noDefaultFeatures : BOOLEAN,
     allFeatures : BOOLEAN]

InitResolve ==
    /\ manifest \in ResolveManifests
    /\ options \in ResolveOptionsSet
    /\ pc = "resolve"
    /\ idx = 1
    /\ enabled = {}
    /\ enabledBy = <<>>
    /\ stack = <<>>
    /\ expansions = [f \in DOMAIN manifest.features |-> 0]
    /\ voptions = <<>>
    /\ errors = <<>>
    /\ warnings = <<>>
    /\ validation = <<>>
    /\ exit = <<>>
    /\ tree = <<>>
    /\ call = <<>>
    /\ heap = <<>>

NextResolve ==
    \/ ResolveBegin
    \/ ResolveAll
    \/ ResolveDefault
    \/ ResolveExplicit
    \/ EnableDep
    \/ EnableReturn

SpecResolve == InitResolve /\ [][NextResolve]_vars

-----------------------------------------------------------------------------
(* Text *)

Lower == {"a", "b", "c", "d", "e", "f", "g", "h", "i", "j", "k", "l", "m",
          "n", "o", "p", "q", "r", "s", "t", "u", "v", "w", "x", "y", "z"}
Digit == {"0", "1", "2", "3", "4", "5", "6", "7", "8", "9"}

\* String.prototype.startsWith / endsWith / includes(substring) / slice(n)
StartsWith(s, p) == Len(s) >= Len(p) /\ SubSeq(s, 1, Len(p)) = p
EndsWith(s, p) ==
    Len(s) >= Len(p) /\ SubSeq(s, Len(s) - Len(p) + 1, Len(s)) = p
Contains(s, p) ==
    \E i \in 1..(Len(s) + 1) :
        i + Len(p) <= Len(s) + 1 /\ SubSeq(s, i, i + Len(p) - 1) = p
Slice(s, n) == SubSeq(s, n + 1, Len(s))

\* String.prototype.indexOf(ch), 1-based; 0 when absent.
IndexOf(s, ch) ==
    IF Includes(s, ch)
    THEN CHOOSE i \in 1..Len(s) : s[i] = ch /\ \A j \in 1..(i - 1) : s[j] # ch
    ELSE 0

\* String.prototype.split(ch)
RECURSIVE Split(_, _)
Split(s, ch) ==
    IF ~Includes(s, ch) THEN <<s>>
    ELSE <<SubSeq(s, 1, IndexOf(s, ch) - 1)>>
            \o Split(Slice(s, IndexOf(s, ch)), ch)

\* Array.prototype.join(sep) on an array of strings
RECURSIVE Join(_, _)
Join(parts, sep) ==
    IF parts = <<>> THEN <<>>
    ELSE IF Len(parts) = 1 THEN parts[1]
    ELSE parts[1] \o sep \o Join(Tail(parts), sep)

\* The part of /^[a-z][a-z0-9]*(?:-[a-z0-9]+)*$/ after the first letter.
RECURSIVE KebabRest(_)
KebabRest(s) ==
    \/ s = <<>>
    \/ Head(s) \in Lower \cup Digit /\ KebabRest(Tail(s))
    \/ /\ Head(s) = "-"
       /\ Len(s) >= 2
       /\ s[2] \in Lower \cup Digit
       /\ KebabRest(Tail(s))

\* /^[a-z][a-z0-9]*(?:-[a-z0-9]+)*$/.test(s)
MatchesKebab(s) == s # <<>> /\ Head(s) \in Lower /\ KebabRest(Tail(s))

\* Variant: the pattern and checks of the dot-notation generation,
\* /^[a-z][a-z0-9]*(?:[-.]?[a-z0-9]+)*$/, where "a.b" is an identifier.
RECURSIVE DottedRest(_)
DottedRest(s) ==
    \/ s = <<>>
    \/ Head(s) \in Lower \cup Digit /\ DottedRest(Tail(s))
    \/ /\ Head(s) \in {"-", "."}
       /\ Len(s) >= 2
       /\ s[2] \in Lower \cup Digit
       /\ DottedRest(Tail(s))

isValidFeatureId_Dotted(id) ==
    IF id = <<>> THEN FALSE
    ELSE IF StartsWith(id, <<".">>) \/ EndsWith(id, <<".">>)
            \/ StartsWith(id, <<"-">>) \/ EndsWith(id, <<"-">>) THEN FALSE
    ELSE IF Contains(id, <<".", ".">>) \/ Contains(id, <<".", "-">>)
            \/ Contains(id, <<"-", ".">>) THEN FALSE
    ELSE Head(id) \in Lower /\ DottedRest(Tail(id))

\* isValidFeatureId of the flat (kebab-case) generation of types.ts
isValidFeatureId(id) ==
    IF id = <<>> THEN FALSE
    ELSE IF StartsWith(id, <<"-">>) \/ EndsWith(id, <<"-">>) THEN FALSE
    ELSE IF Contains(id, <<"-", "-">>) THEN FALSE
    ELSE IF Contains(id, <<".">>) THEN FALSE
    ELSE MatchesKebab(id)

\* The external-reference helpers manifest.ts imports from types.ts, for the
\* ':' separator that manifest.ts documents: a reference is <package>:<feature>,
\* split at the first ':'.  getDepPackage gives the empty text where the
\* code gives undefined (both are falsy).
isDepFeatureRef(id) == Includes(id, ":")
getDepPackage(id) ==
    IF IndexOf(id, ":") = 0 THEN <<>> ELSE SubSeq(id, 1, IndexOf(id, ":") - 1)
getDepFeature(id) ==
    IF IndexOf(id, ":") = 0 THEN id ELSE Slice(id, IndexOf(id, ":"))

DepPrefix == <<"d", "e", "p", ":">>

\* isValidPackageName(name)
isValidPackageName(name) ==
    IF name = <<>> THEN FALSE
    ELSE IF StartsWith(name, <<"@">>)
    THEN LET parts == Split(Slice(name, 1), "/")
         IN IF Len(parts) # 2 THEN FALSE
            ELSE \A i \in 1..Len(parts) : MatchesKebab(parts[i])
    ELSE MatchesKebab(name)

\* Variant: names of external-reference shape pass as declaration names.
isValidFeatureIdOrDefault_AcceptRefs(name) ==
    IF name = default THEN TRUE
    ELSE IF StartsWith(name, DepPrefix) THEN TRUE
    ELSE IF isDepFeatureRef(name) THEN TRUE
    ELSE isValidFeatureId(name)

\* isValidFeatureIdOrDefault(name): the check of a declaration name
isValidFeatureIdOrDefault(name) ==
    IF name = default THEN TRUE
    ELSE IF StartsWith(name, DepPrefix) THEN FALSE
    ELSE IF isDepFeatureRef(name) THEN FALSE
    ELSE isValidFeatureId(name)

-----------------------------------------------------------------------------
(* validateManifest *)

\* A message is the template literal of the source and the values put into
\* its ${...} places, in order.
Message(template, args) == [template |-> template, args |-> args]

InvalidNameError(name) ==
    Message("Invalid feature name \"${name}\": must be kebab-case (e.g., 'async-runtime')",
            <<name>>)
SelfReferenceError(name) ==
    Message("Feature \"${name}\" references itself", <<name>>)
UnknownFeatureError(featureName, ref) ==
    Message("Feature \"${featureName}\" references unknown feature \"${ref}\"",
            <<featureName, ref>>)
CycleError(cycle) ==
    Message("Circular dependency detected: ${cycle.join(\" -> \")}",
            <<Join(cycle, <<" ", "-", ">", " ">>)>>)
MissingDependencyMessage(ref) ==
    Message("Feature \"${ref.feature}\" references non-existent dependency \"${ref.packageName}\" via \"${ref.reference}\"",
            <<ref.feature, ref.packageName, ref.reference>>)
UnknownMetadataWarning(name) ==
    Message("Metadata defined for unknown feature \"${name}\"", <<name>>)
DeprecatedWarning(name) ==
    Message("Feature \"${name}\" is marked deprecated but has no deprecation message",
            <<name>>)
NoDefaultWarning ==
    Message("No \"default\" feature defined. Consider adding one for conventional usage.",
            <<>>)
EmptyDefaultWarning ==
    Message("The \"default\" feature enables no other features. Consider adding features to it.",
            <<>>)

\* Variant: only dep: references are external; <package>:<feature> entries
\* are looked up among the declared names.
validateFeatureReference_NoExternal(ref, featureName, allFeatures) ==
    IF StartsWith(ref, DepPrefix)
    THEN LET depName == Slice(ref, 4)
         IN IF depName = <<>>
            THEN <<Message("Feature \"${featureName}\" has invalid dep: reference \"${ref}\": missing package name",
                           <<featureName, ref>>)>>
            ELSE IF ~isValidPackageName(depName)
            THEN <<Message("Feature \"${featureName}\" has invalid dep: reference \"${ref}\": \"${depName}\" is not a valid package name",
                           <<featureName, ref, depName>>)>>
            ELSE <<>>
    ELSE IF ref \notin allFeatures
    THEN <<UnknownFeatureError(featureName, ref)>>
    ELSE <<>>

\* Variant: a local reference is never looked up among the declared names.
validateFeatureReference_NoLookup(ref, featureName, allFeatures) ==
    IF StartsWith(ref, DepPrefix) /\ Slice(ref, 4) = <<>>
    THEN <<Message("Feature \"${featureName}\" has invalid dep: reference \"${ref}\": missing package name",
                   <<featureName, ref>>)>>
    ELSE <<>>

\* validateFeatureReference(ref, featureName, allFeatures): <<>> for null,
\* otherwise the one error.
validateFeatureReference(ref, featureName, allFeatures) ==
    IF StartsWith(ref, DepPrefix)
    THEN LET depName == Slice(ref, 4)
         IN IF depName = <<>>
            THEN <<Message("Feature \"${featureName}\" has invalid dep: reference \"${ref}\": missing package name",
                           <<featureName, ref>>)>>
            ELSE IF ~isValidPackageName(depName)
            THEN <<Message("Feature \"${featureName}\" has invalid dep: reference \"${ref}\": \"${depName}\" is not a valid package name",
                           <<featureName, ref, depName>>)>>
            ELSE <<>>
    ELSE IF isDepFeatureRef(ref)
    THEN LET pkg == getDepPackage(ref)
             feature == getDepFeature(ref)
         IN IF pkg = <<>>
            THEN <<Message("Feature \"${featureName}\" has invalid external reference \"${ref}\": missing package name",
                           <<featureName, ref>>)>>
            ELSE IF feature = <<>>
            THEN <<Message("Feature \"${featureName}\" has invalid external reference \"${ref}\": missing feature name",
                           <<featureName, ref>>)>>
            ELSE IF ~isValidPackageName(pkg)
            THEN <<Message("Feature \"${featureName}\" has invalid external reference \"${ref}\": \"${pkg}\" is not a valid package name",
                           <<featureName, ref, pkg>>)>>
            ELSE IF ~isValidFeatureId(feature)
            THEN <<Message("Feature \"${featureName}\" has invalid external reference \"${ref}\": \"${feature}\" is not a valid feature name (must be kebab-case)",
                           <<featureName, ref, feature>>)>>
            ELSE <<>>
    ELSE IF ref \notin allFeatures
    THEN <<UnknownFeatureError(featureName, ref)>>
    ELSE <<>>

\* for (const dep of deps) { const refError = ...; if (refError) errors.push }
RECURSIVE ReferenceErrors(_, _, _)
ReferenceErrors(deps, name, allFeatures) ==
    IF deps = <<>> THEN <<>>
    ELSE validateFeatureReference(Head(deps), name, allFeatures)
            \o ReferenceErrors(Tail(deps), name, allFeatures)

\* detectCycles(manifest): the depth-first search dfs(node, path) over
\* st = [cycles, visited, inStack]; every call works on its own copy of path.
RECURSIVE Dfs(_, _, _, _), DfsDeps(_, _, _, _, _)
\* Variant: the cycle recorded is the whole path, not its part from the
\* first occurrence of node.
Dfs_WholePath(m, st, node, path) ==
    IF node \in st.inStack
    THEN [st EXCEPT !.cycles = Append(@, Append(path, node))]
    ELSE IF node \in st.visited THEN st
    ELSE LET entered == [st EXCEPT !.visited = @ \cup {node},
                                   !.inStack = @ \cup {node}]
             done == DfsDeps(m, entered, Deps(m, node), node,
                             Append(path, node))
         IN [done EXCEPT !.inStack = @ \ {node}]

Dfs(m, st, node, path) ==
    IF node \in st.inStack
    THEN [st EXCEPT !.cycles =
            Append(@, Append(SubSeq(path, IndexOf(path, node), Len(path)),
                             node))]
    ELSE IF node \in st.visited THEN st
    ELSE LET entered == [st EXCEPT !.visited = @ \cup {node},
                                   !.inStack = @ \cup {node}]
             done == DfsDeps(m, entered, Deps(m, node), node,
                             Append(path, node))
         IN [done EXCEPT !.inStack = @ \ {node}]

DfsDeps(m, st, deps, node, path) ==
    IF deps = <<>> THEN st
    ELSE DfsDeps(m,
            IF ~StartsWith(Head(deps), DepPrefix) /\ Has(m, Head(deps))
            THEN Dfs(m, st, Head(deps), path)
            ELSE st,
            Tail(deps), node, path)

RECURSIVE DfsEach(_, _, _)
DfsEach(m, st, names) ==
    IF names = <<>> THEN st
    ELSE DfsEach(m, Dfs(m, st, Head(names), <<>>), Tail(names))

detectCycles(m) ==
    DfsEach(m, [cycles |-> <<>>, visited |-> {}, inStack |-> {}],
            Keys(m)).cycles

\* extractExternalReferences(manifest)
RECURSIVE ExternalRefsOf(_, _)
ExternalRefsOf(feature, deps) ==
    IF deps = <<>> THEN <<>>
    ELSE LET dep == Head(deps)
             here ==
                IF StartsWith(dep, DepPrefix)
                THEN <<[feature |-> feature, reference |-> dep, type |-> "dep",
                        packageName |-> Slice(dep, 4), featureName |-> <<>>]>>
                ELSE IF isDepFeatureRef(dep) /\ getDepPackage(dep) # <<>>
                THEN <<[feature |-> feature, reference |-> dep,
                        type |-> "pkg-feature",
                        packageName |-> getDepPackage(dep),
                        featureName |-> getDepFeature(dep)]>>
                ELSE <<>>
         IN here \o ExternalRefsOf(feature, Tail(deps))

RECURSIVE ExternalRefsFrom(_, _)
ExternalRefsFrom(m, names) ==
    IF names = <<>> THEN <<>>
    ELSE ExternalRefsOf(Head(names), Deps(m, Head(names)))
            \o ExternalRefsFrom(m, Tail(names))

extractExternalReferences(m) == ExternalRefsFrom(m, Keys(m))

\* Variant: devDependencies are forgotten.
getAllDependencyNames_NoDev(deps) ==
    deps.dependencies \cup deps.optionalDependencies
        \cup deps.peerDependencies

\* getAllDependencyNames(deps): the keys of the four dependency maps
getAllDependencyNames(deps) ==
    deps.dependencies \cup deps.optionalDependencies
        \cup deps.peerDependencies \cup deps.devDependencies

\* The loops of validateManifest whose bodies push at most one message.
RECURSIVE CycleErrors(_)
CycleErrors(cycles) ==
    IF cycles = <<>> THEN <<>>
    ELSE <<CycleError(Head(cycles))>> \o CycleErrors(Tail(cycles))

RECURSIVE MissingDependencies(_, _)
MissingDependencies(refs, availableDeps) ==
    IF refs = <<>> THEN <<>>
    ELSE (IF Head(refs).packageName \notin availableDeps
          THEN <<MissingDependencyMessage(Head(refs))>> ELSE <<>>)
            \o MissingDependencies(Tail(refs), availableDeps)

RECURSIVE UnknownMetadataWarnings(_, _)
UnknownMetadataWarnings(metadata, allFeatures) ==
    IF metadata = <<>> THEN <<>>
    ELSE (IF Head(metadata).name \notin allFeatures
          THEN <<UnknownMetadataWarning(Head(metadata).name)>> ELSE <<>>)
            \o UnknownMetadataWarnings(Tail(metadata), allFeatures)

\* !meta.deprecatedMessage: undefined or the empty text
NoDeprecatedMessage(meta) ==
    ~meta.deprecatedMessage.defined \/ meta.deprecatedMessage.text = <<>>

RECURSIVE DeprecatedWarnings(_)
DeprecatedWarnings(metadata) ==
    IF metadata = <<>> THEN <<>>
    ELSE (IF Head(metadata).meta.deprecated
                /\ NoDeprecatedMessage(Head(metadata).meta)
          THEN <<DeprecatedWarning(Head(metadata).name)>> ELSE <<>>)
            \o DeprecatedWarnings(Tail(metadata))

\* options?.dependencies ? getAllDependencyNames(options.dependencies) : null,
\* as <<>> for null and <<names>> otherwise
AvailableDeps ==
    IF voptions # <<>> /\ voptions[1].dependencies # <<>>
    THEN <<getAllDependencyNames(voptions[1].dependencies[1])>>
    ELSE <<>>

\* Variant: the self-reference check is missing.
ValidateFeature_NoSelfCheck ==
    /\ pc = "v-features"
    /\ IF idx <= Len(Keys(manifest))
       THEN LET name == Keys(manifest)[idx]
                deps == Deps(manifest, name)
            IN  /\ errors' = errors
                    \o (IF ~isValidFeatureIdOrDefault(name)
                        THEN <<InvalidNameError(name)>> ELSE <<>>)
                    \o ReferenceErrors(deps, name, DOMAIN manifest.features)
                /\ idx' = idx + 1
                /\ pc' = pc
       ELSE /\ pc' = "v-cycles"
            /\ UNCHANGED <<idx, errors>>
    /\ UNCHANGED <<manifest, voptions, warnings, validation, exit>>
    /\ UNCHANGED resolveVars
    /\ UNCHANGED apiVars

\* One iteration of "for (const [name, deps] of manifest.features)": the name
\* format, the self-reference and every reference of the activation list.
ValidateFeature ==
    /\ pc = "v-features"
    /\ IF idx <= Len(Keys(manifest))
       THEN LET name == Keys(manifest)[idx]
                deps == Deps(manifest, name)
            IN  /\ errors' = errors
                    \o (IF ~isValidFeatureIdOrDefault(name)
                        THEN <<InvalidNameError(name)>> ELSE <<>>)
                    \o (IF Includes(deps, name)
                        THEN <<SelfReferenceError(name)>> ELSE <<>>)
                    \o ReferenceErrors(deps, name, DOMAIN manifest.features)
                /\ idx' = idx + 1
                /\ pc' = pc
       ELSE /\ pc' = "v-cycles"
            /\ UNCHANGED <<idx, errors>>
    /\ UNCHANGED <<manifest, voptions, warnings, validation, exit>>
    /\ UNCHANGED resolveVars
    /\ UNCHANGED apiVars

\* Variant: cycles are reported as warnings.
ValidateCycles_AsWarnings ==
    /\ pc = "v-cycles"
    /\ warnings' = warnings \o CycleErrors(detectCycles(manifest))
    /\ pc' = "v-external"
    /\ UNCHANGED <<manifest, idx, voptions, errors, validation, exit>>
    /\ UNCHANGED resolveVars
    /\ UNCHANGED apiVars

\* const cycles = detectCycles(manifest); one error for each
ValidateCycles ==
    /\ pc = "v-cycles"
    /\ errors' = errors \o CycleErrors(detectCycles(manifest))
    /\ pc' = "v-external"
    /\ UNCHANGED <<manifest, idx, voptions, warnings, validation, exit>>
    /\ UNCHANGED resolveVars
    /\ UNCHANGED apiVars

\* if (availableDeps) { ... } : external references against the dependencies
ValidateExternal ==
    /\ pc = "v-external"
    /\ IF AvailableDeps # <<>>
       THEN LET missing == MissingDependencies(
                    extractExternalReferences(manifest), AvailableDeps[1])
            IN IF voptions[1].strictDependencies
               THEN errors' = errors \o missing /\ warnings' = warnings
               ELSE warnings' = warnings \o missing /\ errors' = errors
       ELSE UNCHANGED <<errors, warnings>>
    /\ pc' = "v-metadata"
    /\ UNCHANGED <<manifest, idx, voptions, validation, exit>>
    /\ UNCHANGED resolveVars
    /\ UNCHANGED apiVars

\* for (const name of manifest.metadata.keys()) ...
ValidateMetadata ==
    /\ pc = "v-metadata"
    /\ warnings' = warnings
            \o UnknownMetadataWarnings(manifest.metadata,
                                       DOMAIN manifest.features)
    /\ pc' = "v-deprecated"
    /\ UNCHANGED <<manifest, idx, voptions, errors, validation, exit>>
    /\ UNCHANGED resolveVars
    /\ UNCHANGED apiVars

\* for (const [name, meta] of manifest.metadata) ...
ValidateDeprecated ==
    /\ pc = "v-deprecated"
    /\ warnings' = warnings \o DeprecatedWarnings(manifest.metadata)
    /\ pc' = "v-default"
    /\ UNCHANGED <<manifest, idx, voptions, errors, validation, exit>>
    /\ UNCHANGED resolveVars
    /\ UNCHANGED apiVars

\* The two warnings about "default".
ValidateDefault ==
    /\ pc = "v-default"
    /\ warnings' = warnings
            \o (IF ~Has(manifest, default) THEN <<NoDefaultWarning>> ELSE <<>>)
            \o (IF Has(manifest, default) /\ Len(Deps(manifest, default)) = 0
                THEN <<EmptyDefaultWarning>> ELSE <<>>)
    /\ pc' = "v-return"
    /\ UNCHANGED <<manifest, idx, voptions, errors, validation, exit>>
    /\ UNCHANGED resolveVars
    /\ UNCHANGED apiVars

\* Variant: warnings count against validity.
ValidateReturn_WarningsInvalidate ==
    /\ pc = "v-return"
    /\ validation' = <<[valid |-> Len(errors) = 0 /\ Len(warnings) = 0,
                        errors |-> errors, warnings |-> warnings]>>
    /\ pc' = "validated"
    /\ UNCHANGED <<manifest, idx, voptions, errors, warnings, exit>>
    /\ UNCHANGED resolveVars
    /\ UNCHANGED apiVars

\* return { valid: errors.length === 0, errors, warnings }
ValidateReturn ==
    /\ pc = "v-return"
    /\ validation' = <<[valid |-> Len(errors) = 0, errors |-> errors,
                        warnings |-> warnings]>>
    /\ pc' = "validated"
    /\ UNCHANGED <<manifest, idx, voptions, errors, warnings, exit>>
    /\ UNCHANGED resolveVars
    /\ UNCHANGED apiVars

\* cmdValidate(manifest), which validates without options: its exit code.
CmdValidate ==
    /\ pc = "validated"
    /\ voptions = <<>>
    /\ LET result == validation[1]
       IN exit' = IF result.valid /\ Len(result.warnings) = 0 THEN <<0>>
                  ELSE IF result.valid THEN <<0>> ELSE <<1>>
    /\ pc' = "exited"
    /\ UNCHANGED <<manifest, idx, voptions, errors, warnings, validation>>
    /\ UNCHANGED resolveVars
    /\ UNCHANGED apiVars

-----------------------------------------------------------------------------
(* Inputs of the validation runs *)

NoMessage == [defined |-> FALSE, text |-> <<>>]
SomeMessage(text) == [defined |-> TRUE, text |-> text]

\* Graph shapes: the manifests of the resolution runs (chains, diamonds,
\* cycles, undeclared and dep: targets), validated without options.
GraphInputs == ResolveManifests \X {<<>>}

\* Names and references: well-formed and malformed declaration names, and
\* well-formed and malformed references, validated without options.
NameTargets ==
    {default, fa, fb, depx, pf, scopedRef, depEmpty, depUpper, noPackageRef,
     noFeatureRef, badPackageRef, badFeatureRef}

NameInputs ==
    (UNION {ManifestsOver(base \cup extra, NameTargets, MaxDeps, MaxDeps, <<>>) :
            <<base, extra>> \in (SUBSET {default, fa, fb})
                \X {{}, {depx}, {pf}, {upperName}, {dottedName}}})
        \X {<<>>}

\* External references checked against dependency maps.
DependencyMaps ==
    [dependencies : SUBSET {pkgX}, optionalDependencies : SUBSET {pkgP},
     peerDependencies : SUBSET {pkgScoped}, devDependencies : SUBSET {pkgX}]

ValidateOptionsSet ==
    {<<>>}
    \cup {<<[dependencies |-> d, strictDependencies |-> b]>> :
            d \in {<<>>} \cup {<<x>> : x \in DependencyMaps}, b \in BOOLEAN}

DependencyInputs ==
    (UNION {ManifestsOver(D, {fa, depx, pf, scopedRef}, MaxDeps, MaxDeps, <<>>) :
            D \in {{fa}, {default, fa}}})
        \X ValidateOptionsSet

\* Metadata: entries for a declared and for an undeclared feature.
Metas ==
    [deprecated : BOOLEAN,
     deprecatedMessage : {NoMessage, SomeMessage(<<>>),
                          SomeMessage(<<"u", "s", "e", " ", "b">>)}]

MetadataMaps ==
    {<<>>}
    \cup {<<[name |-> n, meta |-> x]>> : n \in {fa, fb}, x \in Metas}
    \cup {<<[name |-> fa, meta |-> x], [name |-> fb, meta |-> y]>> :
            x \in Metas, y \in Metas}

MetadataInputs ==
    (UNION {ManifestsOver(D, {fa}, 1, 1, md) :
            <<D, md>> \in {{fa}, {default, fa}, {default}} \X MetadataMaps})
        \X {<<>>}

ValidateInputs ==
    GraphInputs \cup NameInputs \cup DependencyInputs \cup MetadataInputs

InitValidate ==
    /\ \E input \in ValidateInputs :
        /\ manifest = input[1]
        /\ voptions = input[2]
    /\ pc = "v-features"
    /\ idx = 1
    /\ errors = <<>>
    /\ warnings = <<>>
    /\ validation = <<>>
    /\ exit = <<>>
    /\ tree = <<>>
    /\ options = [features |-> <<>>, noDefaultFeatures |-> FALSE,
                  allFeatures |-> FALSE]
    /\ enabled = {}
    /\ enabledBy = <<>>
    /\ stack = <<>>
    /\ expansions = [f \in DOMAIN manifest.features |-> 0]
    /\ call = <<>>
    /\ heap = <<>>

NextValidate ==
    \/ ValidateFeature
    \/ ValidateCycles
    \/ ValidateExternal
    \/ ValidateMetadata
    \/ ValidateDeprecated
    \/ ValidateDefault
    \/ ValidateReturn
    \/ CmdValidate

SpecValidate == InitValidate /\ [][NextValidate]_vars

-----------------------------------------------------------------------------
(* Calls of the pure functions of the API *)

\* The engine at rest: no resolveFeatures or validateManifest call is running.
EmptyManifest == [order |-> <<>>, features |-> <<>>, metadata |-> <<>>]

EngineIdle ==
    /\ manifest = EmptyManifest
    /\ options = [features |-> <<>>, noDefaultFeatures |-> FALSE,
                  allFeatures |-> FALSE]
    /\ idx = 1
    /\ enabled = {}
    /\ enabledBy = <<>>
    /\ stack = <<>>
    /\ expansions = <<>>
    /\ voptions = <<>>
    /\ errors = <<>>
    /\ warnings = <<>>
    /\ validation = <<>>
    /\ exit = <<>>
    /\ tree = <<>>

\* A call before it returns, and the same call with its result.
Pending(op, args) == [op |-> op, args |-> args, result |-> <<>>]
Return(c, value) == [c EXCEPT !.result = <<value>>]

\* The characters the identifier rules tell apart: a lowercase letter, a
\* digit, the hyphen, and one of each kind that is not allowed.
Alphabet == {"a", "1", "-", ".", "B", ":", "_", " "}

MaxTextLen == 4

Texts == SeqsUpTo(Alphabet, MaxTextLen)

InitIds ==
    /\ EngineIdle
    /\ pc = "call"
    /\ heap = <<>>
    /\ \E id \in Texts : call = Pending("isValidFeatureId", <<id>>)

CallIsValidFeatureId ==
    /\ pc = "call"
    /\ call.op = "isValidFeatureId"
    /\ call' = Return(call, isValidFeatureId(call.args[1]))
    /\ pc' = "returned"
    /\ UNCHANGED <<heap, tree, manifest, idx, resolveVars, validateVars>>

NextIds == CallIsValidFeatureId

SpecIds == InitIds /\ [][NextIds]_vars

\* Array.prototype.reverse
Reverse(s) == [i \in 1..Len(s) |-> s[Len(s) + 1 - i]]

\* The inner trace(f) of getEnableChain over st = [chain, visited].
RECURSIVE Trace(_, _, _)
Trace(resolved, st, f) ==
    IF f \in st.visited THEN st
    ELSE LET pushed == [chain |-> Append(st.chain, f),
                        visited |-> st.visited \cup {f}]
         IN  IF f \in DOMAIN resolved.enabledBy
                    /\ Len(resolved.enabledBy[f]) > 0
                    /\ ~StartsWith(resolved.enabledBy[f][1], <<"<">>)
             THEN Trace(resolved, pushed, resolved.enabledBy[f][1])
             ELSE pushed

\* Variant: the chain is returned as traced, leaf first.
getEnableChain_NoReverse(feature, resolved) ==
    IF feature \notin resolved.enabled THEN <<>>
    ELSE <<Trace(resolved, [chain |-> <<>>, visited |-> {}], feature).chain>>

\* getEnableChain(feature, resolved): <<>> for null, otherwise <<chain>>.
getEnableChain(feature, resolved) ==
    IF feature \notin resolved.enabled THEN <<>>
    ELSE <<Reverse(Trace(resolved, [chain |-> <<>>, visited |-> {}],
                         feature).chain)>>

\* The names getEnableChain is asked about: declared or not, a dep: target.
ChainNames == {default} \cup TargetUniverse

\* A resolveFeatures call has returned its ResolvedFeatures.
InitChain ==
    /\ manifest \in ResolveManifests
    /\ options \in ResolveOptionsSet
    /\ LET resolved == ResolveFeatures(manifest, options)
       IN  enabled = resolved.enabled /\ enabledBy = resolved.enabledBy
    /\ pc = "resolved"
    /\ idx = 1
    /\ stack = <<>>
    /\ expansions = <<>>
    /\ voptions = <<>>
    /\ errors = <<>>
    /\ warnings = <<>>
    /\ validation = <<>>
    /\ exit = <<>>
    /\ tree = <<>>
    /\ call = <<>>
    /\ heap = <<>>

CallGetEnableChain ==
    /\ pc = "resolved"
    /\ \E feature \in ChainNames :
        call' = Return(Pending("getEnableChain", <<feature>>),
                       getEnableChain(feature,
                            [enabled |-> enabled, enabledBy |-> enabledBy,
                             manifest |-> manifest, options |-> options]))
    /\ pc' = "returned"
    /\ UNCHANGED <<heap, tree, manifest, idx, resolveVars, validateVars>>

NextChain == CallGetEnableChain

SpecChain == InitChain /\ [][NextChain]_vars

-----------------------------------------------------------------------------
(* The feature registry (registry.ts) *)

\* featureId(id) throws on an invalid id; the callers below skip it then.
IsFeatureId(id) == isValidFeatureId(id)

\* buildSchema(definitions): <<>> when it throws (an invalid or duplicate
\* id), otherwise <<schema>>.  A definition input is [id, defaultEnabled],
\* defaultEnabled being <<>> when it is left out.
RECURSIVE BuildFeatures(_)
BuildFeatures(definitions) ==
    IF definitions = <<>> THEN <<>>
    ELSE LET input == definitions[Len(definitions)]
         IN  MapSet(BuildFeatures(SubSeq(definitions, 1, Len(definitions) - 1)),
                    input.id,
                    [id |-> input.id,
                     cascadeToChildren |-> TRUE,
                     defaultEnabled |-> IF input.defaultEnabled = <<>>
                                        THEN FALSE
                                        ELSE input.defaultEnabled[1]])

buildSchema(definitions) ==
    IF \/ \E i \in 1..Len(definitions) : ~isValidFeatureId(definitions[i].id)
       \/ \E i, j \in 1..Len(definitions) :
            i # j /\ definitions[i].id = definitions[j].id
    THEN <<>>
    ELSE <<[features |-> BuildFeatures(definitions),
            roots |-> [i \in 1..Len(definitions) |-> definitions[i].id]]>>

createEmptySchema == [features |-> <<>>, roots |-> <<>>]

Programmatic == [type |-> "programmatic"]

\* computeInitialState(definition, config, schema)
computeInitialState(definition, config) ==
    IF config.enableAll
    THEN [enabled |-> TRUE, reason |-> "enable-all", source |-> <<>>]
    ELSE IF config.disableAll
    THEN [enabled |-> FALSE, reason |-> "disable-all", source |-> <<>>]
    ELSE IF definition.defaultEnabled
    THEN [enabled |-> TRUE, reason |-> "default-enabled", source |-> <<>>]
    ELSE [enabled |-> FALSE, reason |-> "default-disabled", source |-> <<>>]

\* applyEnable / applyDisable(id, states, schema, source, reason)
applyEnable(id, states, source, reason) ==
    MapSet(states, id,
           [enabled |-> TRUE, reason |-> reason, source |-> <<source>>])

applyDisable(id, states, source, reason) ==
    MapSet(states, id,
           [enabled |-> FALSE, reason |-> reason, source |-> <<source>>])

\* for (const idStr of config.enabled) { try { applyEnable(featureId(idStr),
\* ...) } catch { } } and the same loop over config.disabled
RECURSIVE ApplyEnables(_, _, _)
\* Variant: a listed id that has no state yet (the schema does not declare
\* it) is skipped.
ApplyEnables_DeclaredOnly(states, ids, source) ==
    IF ids = <<>> THEN states
    ELSE ApplyEnables(
            IF IsFeatureId(Head(ids)) /\ Head(ids) \in DOMAIN states
            THEN applyEnable(Head(ids), states, source, "explicit-enabled")
            ELSE states,
            Tail(ids), source)

ApplyEnables(states, ids, source) ==
    IF ids = <<>> THEN states
    ELSE ApplyEnables(
            IF IsFeatureId(Head(ids))
            THEN applyEnable(Head(ids), states, source, "explicit-enabled")
            ELSE states,
            Tail(ids), source)

RECURSIVE ApplyDisables(_, _, _)
ApplyDisables(states, ids, source) ==
    IF ids = <<>> THEN states
    ELSE ApplyDisables(
            IF IsFeatureId(Head(ids))
            THEN applyDisable(Head(ids), states, source, "explicit-disabled")
            ELSE states,
            Tail(ids), source)

\* A function of the registry API allocates its result: it returns the heap
\* after the call and the reference of the registry it returns.
Allocate(h, registry) == [heap |-> Append(h, registry), result |-> Len(h) + 1]

\* Variant: the explicit enables are applied after the explicit disables.
createRegistry_EnablesLast(h, schema, config) ==
    Allocate(h,
        [schema |-> schema,
         states |->
            ApplyEnables(
                ApplyDisables(
                    [id \in DOMAIN schema.features |->
                        computeInitialState(schema.features[id], config)],
                    config.disabled, Programmatic),
                config.enabled, Programmatic),
         config |-> [config |-> config, source |-> Programmatic]])

\* createRegistry({schema, config})
createRegistry(h, schema, config) ==
    Allocate(h,
        [schema |-> schema,
         states |->
            ApplyDisables(
                ApplyEnables(
                    [id \in DOMAIN schema.features |->
                        computeInitialState(schema.features[id], config)],
                    config.enabled, Programmatic),
                config.disabled, Programmatic),
         config |-> [config |-> config, source |-> Programmatic]])

\* isEnabled(registry, id)
isEnabled(registry, id) ==
    IF id \in DOMAIN registry.states THEN registry.states[id].enabled
    ELSE FALSE

\* Variant: the state is set in the Map of the registry passed in, which the
\* returned registry shares.
setFeatureState_InPlace(h, registry, id, enable) ==
    LET newStates ==
            IF enable
            THEN applyEnable(id, h[registry].states, Programmatic,
                             "explicit-enabled")
            ELSE applyDisable(id, h[registry].states, Programmatic,
                              "explicit-disabled")
    IN  Allocate([h EXCEPT ![registry].states = newStates],
                 [schema |-> h[registry].schema,
                  states |-> newStates,
                  config |-> h[registry].config])

\* setFeatureState(registry, id, enabled), registry a reference into h; the
\* parameter enabled is written enable
setFeatureState(h, registry, id, enable) ==
    LET newStates ==
            IF enable
            THEN applyEnable(id, h[registry].states, Programmatic,
                             "explicit-enabled")
            ELSE applyDisable(id, h[registry].states, Programmatic,
                              "explicit-disabled")
    IN  Allocate(h,
                 [schema |-> h[registry].schema,
                  states |-> newStates,
                  config |-> h[registry].config])

enableFeature(h, registry, id) == setFeatureState(h, registry, id, TRUE)

disableFeature(h, registry, id) == setFeatureState(h, registry, id, FALSE)

\* Map.prototype.set of every entry of a second map, in its order
MapSetAll(map, other) ==
    [x \in DOMAIN map \cup DOMAIN other |->
        IF x \in DOMAIN other THEN other[x] ELSE map[x]]

\* The keys of allFeatures in insertion order: those of base, then the new
\* ones of override.
MergedOrder(base, override) ==
    base.roots \o SelectSeq(override.roots,
                            LAMBDA id : id \notin DOMAIN base.features)

\* Variant: the states of base are set after those of override.
mergeRegistries_BaseWins(h, base, override) ==
    LET allFeatures == MapSetAll(h[base].schema.features,
                                 h[override].schema.features)
        order == MergedOrder(h[base].schema, h[override].schema)
        definitions ==
            [i \in 1..Len(order) |->
                [id |-> order[i],
                 defaultEnabled |-> <<allFeatures[order[i]].defaultEnabled>>]]
    IN  Allocate(h,
                 [schema |-> buildSchema(definitions)[1],
                  states |-> MapSetAll(h[override].states, h[base].states),
                  config |-> h[override].config])

\* mergeRegistries(base, override), both references into h
mergeRegistries(h, base, override) ==
    LET allFeatures == MapSetAll(h[base].schema.features,
                                 h[override].schema.features)
        order == MergedOrder(h[base].schema, h[override].schema)
        definitions ==
            [i \in 1..Len(order) |->
                [id |-> order[i],
                 defaultEnabled |-> <<allFeatures[order[i]].defaultEnabled>>]]
    IN  Allocate(h,
                 [schema |-> buildSchema(definitions)[1],
                  states |-> MapSetAll(h[base].states, h[override].states),
                  config |-> h[override].config])

-----------------------------------------------------------------------------
(* Inputs and calls of the registry *)

\* Declared ids, and the names a config lists: a declared id, an id that no
\* schema declares, and a text that is not a feature id.
RegistryIds == {fa, fb}
ConfigNames == {fa, fc, upperName}

DefinitionInputs(id) ==
    {[id |-> id, defaultEnabled |-> d] : d \in {<<>>, <<TRUE>>, <<FALSE>>}}

Schemas ==
    {createEmptySchema}
    \cup {buildSchema(<<x>>)[1] :
            x \in DefinitionInputs(fa) \cup DefinitionInputs(fb)}
    \cup {buildSchema(<<x, y>>)[1] :
            x \in DefinitionInputs(fa), y \in DefinitionInputs(fb)}
    \cup {buildSchema(<<y, x>>)[1] :
            x \in DefinitionInputs(fa), y \in DefinitionInputs(fb)}

MaxListed == 2

Configs ==
    [enabled : SeqsUpTo(ConfigNames, MaxListed),
     disabled : SeqsUpTo(ConfigNames, MaxListed),
     enableAll : BOOLEAN, disableAll : BOOLEAN]

InitCreate ==
    /\ EngineIdle
    /\ pc = "call"
    /\ heap = <<>>
    /\ \E schema \in Schemas, config \in Configs :
        call = Pending("createRegistry", <<schema, config>>)

CallCreateRegistry ==
    /\ pc = "call"
    /\ call.op = "createRegistry"
    /\ LET done == createRegistry(heap, call.args[1], call.args[2])
       IN  /\ heap' = done.heap
           /\ call' = Return(call, done.result)
    /\ pc' = "returned"
    /\ UNCHANGED <<tree, manifest, idx, resolveVars, validateVars>>

NextCreate == CallCreateRegistry

SpecCreate == InitCreate /\ [][NextCreate]_vars

\* Two registries made by createRegistry, then calls on them and on their
\* results.
RegistryConfigs ==
    {[enabled |-> e, disabled |-> d, enableAll |-> all, disableAll |-> FALSE] :
        <<e, d, all>> \in {<<<<>>, <<>>, FALSE>>, <<<<fa>>, <<>>, FALSE>>,
                           <<<<>>, <<fa>>, FALSE>>, <<<<fc>>, <<>>, FALSE>>,
                           <<<<>>, <<>>, TRUE>>}}

MaxRegistries == 3

\* The ids setFeatureState is called with: declared or not.
SetIds == {fa, fc}

InitRegistry ==
    /\ EngineIdle
    /\ pc = "api"
    /\ call = <<>>
    /\ \E s1 \in Schemas, c1 \in RegistryConfigs,
          s2 \in Schemas, c2 \in RegistryConfigs :
        heap = createRegistry(createRegistry(<<>>, s1, c1).heap, s2, c2).heap

\* The call returns: its result is allocated and recorded.
Returns(op, args, done) ==
    /\ heap' = done.heap
    /\ call' = Return(Pending(op, args), done.result)
    /\ UNCHANGED <<tree, manifest, pc, idx, resolveVars, validateVars>>

CallSetFeatureState ==
    /\ pc = "api"
    /\ Len(heap) < MaxRegistries
    /\ \E registry \in 1..Len(heap), id \in SetIds, enable \in BOOLEAN :
        Returns("setFeatureState", <<registry, id, enable>>,
                setFeatureState(heap, registry, id, enable))

CallEnableFeature ==
    /\ pc = "api"
    /\ Len(heap) < MaxRegistries
    /\ \E registry \in 1..Len(heap), id \in SetIds :
        Returns("enableFeature", <<registry, id>>,
                enableFeature(heap, registry, id))

CallDisableFeature ==
    /\ pc = "api"
    /\ Len(heap) < MaxRegistries
    /\ \E registry \in 1..Len(heap), id \in SetIds :
        Returns("disableFeature", <<registry, id>>,
                disableFeature(heap, registry, id))

CallMergeRegistries ==
    /\ pc = "api"
    /\ Len(heap) < MaxRegistries
    /\ \E base \in 1..Len(heap), override \in 1..Len(heap) :
        Returns("mergeRegistries", <<base, override>>,
                mergeRegistries(heap, base, override))

NextRegistry ==
    \/ CallSetFeatureState
    \/ CallEnableFeature
    \/ CallDisableFeature
    \/ CallMergeRegistries

SpecRegistry == InitRegistry /\ [][NextRegistry]_vars

-----------------------------------------------------------------------------
(* A sequence of calls, each on the registry the call before it returned *)

\* The configs of the first call: those of RegistryConfigs, and configs that
\* list a text that is no feature id, an undeclared id to disable, the same
\* id to enable and to disable, and disableAll.
SequenceConfigs ==
    RegistryConfigs
    \cup {[enabled |-> e, disabled |-> d, enableAll |-> FALSE,
           disableAll |-> all] :
            <<e, d, all>> \in {<<<<upperName, fa>>, <<>>, FALSE>>,
                               <<<<>>, <<fc>>, FALSE>>,
                               <<<<fa>>, <<fa>>, FALSE>>,
                               <<<<>>, <<>>, TRUE>>}}

\* The calls that follow createRegistry are at most this many.
MaxSequence == 3

\* call records the last call and, in earlier, the calls before it in order.
Logged(earlier, op, args, result) ==
    [op |-> op, args |-> args, result |-> <<result>>, earlier |-> earlier]

Calls ==
    Append(call.earlier,
           [op |-> call.op, args |-> call.args, result |-> call.result])

InitSequence ==
    /\ EngineIdle
    /\ pc = "api"
    /\ \E schema \in Schemas, config \in SequenceConfigs :
        LET done == createRegistry(<<>>, schema, config)
        IN  /\ heap = done.heap
            /\ call = Logged(<<>>, "createRegistry", <<schema, config>>,
                             done.result)

\* The call returns: its result is allocated and the call is logged.
Then(op, args, done) ==
    /\ heap' = done.heap
    /\ call' = Logged(Calls, op, args, done.result)
    /\ UNCHANGED <<tree, manifest, pc, idx, resolveVars, validateVars>>

ThenSetFeatureState ==
    /\ pc = "api"
    /\ Len(Calls) <= MaxSequence
    /\ \E id \in SetIds, enable \in BOOLEAN :
        Then("setFeatureState", <<call.result[1], id, enable>>,
             setFeatureState(heap, call.result[1], id, enable))

ThenEnableFeature ==
    /\ pc = "api"
    /\ Len(Calls) <= MaxSequence
    /\ \E id \in SetIds :
        Then("enableFeature", <<call.result[1], id>>,
             enableFeature(heap, call.result[1], id))

ThenDisableFeature ==
    /\ pc = "api"
    /\ Len(Calls) <= MaxSequence
    /\ \E id \in SetIds :
        Then("disableFeature", <<call.result[1], id>>,
             disableFeature(heap, call.result[1], id))

NextSequence ==
    \/ ThenSetFeatureState
    \/ ThenEnableFeature
    \/ ThenDisableFeature

SpecSequence == InitSequence /\ [][NextSequence]_vars

-----------------------------------------------------------------------------
(* requireFeature: the registry API and the evaluation API *)

\* new FeatureNotFoundError(featureId)
FeatureNotFoundError(featureId) ==
    [name |-> "FeatureNotFoundError",
     featureId |-> featureId,
     message |-> Message("Feature \"{0}\" is not defined in the schema",
                         <<featureId>>)]

\* new FeatureNotEnabledError(featureId, state)
FeatureNotEnabledError(featureId, state) ==
    [name |-> "FeatureNotEnabledError",
     featureId |-> featureId,
     state |-> state,
     message |-> Message("Feature \"{0}\" is not enabled (reason: {1})",
                         <<featureId, <<state.reason>>>>)]

\* requireFeature(registry, id) of the registry API: <<>> when it returns
\* normally, <<error>> when it throws.
requireFeature(registry, id) ==
    IF ~isEnabled(registry, id)
    THEN <<FeatureNotFoundError(id)>>
    ELSE <<>>

\* requireFeature(id, registry) of the evaluation API, exported as
\* evalRequireFeature.
evalRequireFeature(id, registry) ==
    IF ~isEnabled(registry, id)
    THEN IF id \in DOMAIN registry.states
         THEN <<FeatureNotEnabledError(id, registry.states[id])>>
         ELSE <<FeatureNotEnabledError(
                    id, [enabled |-> FALSE, reason |-> "default-disabled"])>>
    ELSE <<>>

\* The ids a feature is required by: declared in both schemas, in one, in none.
RequireIds == {fa, fb, fc}

InitRequire ==
    /\ EngineIdle
    /\ pc = "call"
    /\ \E schema \in Schemas, config \in Configs :
        heap = createRegistry(<<>>, schema, config).heap
    /\ \E id \in RequireIds :
        \/ call = Pending("requireFeature", <<1, id>>)
        \/ call = Pending("evalRequireFeature", <<id, 1>>)

CallRequireFeature ==
    /\ pc = "call"
    /\ call.op = "requireFeature"
    /\ call' = Return(call, requireFeature(heap[call.args[1]], call.args[2]))
    /\ pc' = "returned"
    /\ UNCHANGED <<heap, tree, manifest, idx, resolveVars, validateVars>>

CallEvalRequireFeature ==
    /\ pc = "call"
    /\ call.op = "evalRequireFeature"
    /\ call' = Return(call,
                      evalRequireFeature(call.args[1], heap[call.args[2]]))
    /\ pc' = "returned"
    /\ UNCHANGED <<heap, tree, manifest, idx, resolveVars, validateVars>>

NextRequire ==
    \/ CallRequireFeature
    \/ CallEvalRequireFeature

SpecRequire == InitRequire /\ [][NextRequire]_vars

-----------------------------------------------------------------------------
(* parseManifest and toRawConfig *)

\* A plain JavaScript object with string keys: its own keys in property
\* order (integer-like keys first, ascending, then the others in insertion
\* order) and their values.
EmptyObject == [keys |-> <<>>, value |-> <<>>]

\* A canonical array index: a decimal number without a leading zero.
IsArrayIndex(k) ==
    /\ k # <<>>
    /\ \A i \in 1..Len(k) : k[i] \in Digit
    /\ Len(k) = 1 \/ k[1] # "0"

DigitValue(c) ==
    CHOOSE n \in 0..9 :
        <<"0", "1", "2", "3", "4", "5", "6", "7", "8", "9">>[n + 1] = c

RECURSIVE NumberOf(_)
NumberOf(k) ==
    IF k = <<>> THEN 0
    ELSE 10 * NumberOf(SubSeq(k, 1, Len(k) - 1)) + DigitValue(k[Len(k)])

InsertAt(s, i, x) == SubSeq(s, 1, i - 1) \o <<x>> \o SubSeq(s, i, Len(s))

\* object[k] = v
ObjectSet(object, k, v) ==
    [keys |->
        IF k \in DOMAIN object.value THEN object.keys
        ELSE IF IsArrayIndex(k)
        THEN InsertAt(object.keys,
                      1 + Cardinality({i \in 1..Len(object.keys) :
                            /\ IsArrayIndex(object.keys[i])
                            /\ NumberOf(object.keys[i]) < NumberOf(k)}),
                      k)
        ELSE Append(object.keys, k),
     value |-> MapSet(object.value, k, v)]

\* Object.entries(object)
ObjectEntries(object) ==
    [i \in 1..Len(object.keys) |->
        [name |-> object.keys[i], value |-> object.value[object.keys[i]]]]

\* The object written as a literal or parsed from JSON text with the members
\* in the given order.
RECURSIVE ObjectOf(_)
ObjectOf(members) ==
    IF members = <<>> THEN EmptyObject
    ELSE LET last == members[Len(members)]
         IN ObjectSet(ObjectOf(SubSeq(members, 1, Len(members) - 1)),
                      last.name, last.value)

\* A Map filled by Map.prototype.set in the order of the entries: the keys
\* in insertion order and the values.
RECURSIVE SetEach(_, _)
SetEach(map, entries) ==
    IF entries = <<>> THEN map
    ELSE SetEach(
            [order |-> IF Head(entries).name \in DOMAIN map.value
                       THEN map.order
                       ELSE Append(map.order, Head(entries).name),
             value |-> MapSet(map.value, Head(entries).name,
                              Head(entries).value)],
            Tail(entries))

\* Variant: a feature whose activation list is empty is dropped.
parseManifest_SkipEmpty(config) ==
    LET kept == SelectSeq(ObjectEntries(config.features),
                          LAMBDA e : e.value # <<>>)
        features == SetEach([order |-> <<>>, value |-> <<>>], kept)
        metadata ==
            IF config.metadata # <<>>
            THEN SetEach([order |-> <<>>, value |-> <<>>],
                         ObjectEntries(config.metadata[1]))
            ELSE [order |-> <<>>, value |-> <<>>]
    IN  [order |-> features.order,
         features |-> features.value,
         metadata |-> [i \in 1..Len(metadata.order) |->
                        [name |-> metadata.order[i],
                         meta |-> metadata.value[metadata.order[i]]]]]

\* parseManifest(config, source, dependencies); source and dependencies are
\* stored as given. config.metadata is <<>> when undefined.
parseManifest(config) ==
    LET features == SetEach([order |-> <<>>, value |-> <<>>],
                            ObjectEntries(config.features))
        metadata ==
            IF config.metadata # <<>>
            THEN SetEach([order |-> <<>>, value |-> <<>>],
                         ObjectEntries(config.metadata[1]))
            ELSE [order |-> <<>>, value |-> <<>>]
    IN  [order |-> features.order,
         features |-> features.value,
         metadata |-> [i \in 1..Len(metadata.order) |->
                        [name |-> metadata.order[i],
                         meta |-> metadata.value[metadata.order[i]]]]]

\* Variant: an entry without dependencies is left out of the raw features.
toRawConfig_DropEmpty(m) ==
    LET features ==
            ObjectOf(SelectSeq(
                [i \in 1..Len(m.order) |->
                    [name |-> m.order[i], value |-> m.features[m.order[i]]]],
                LAMBDA e : e.value # <<>>))
        metadata ==
            ObjectOf([i \in 1..Len(m.metadata) |->
                        [name |-> m.metadata[i].name,
                         value |-> m.metadata[i].meta]])
    IN  [features |-> features,
         metadata |-> IF Len(metadata.keys) > 0 THEN <<metadata>> ELSE <<>>]

\* toRawConfig(manifest)
toRawConfig(m) ==
    LET features ==
            ObjectOf([i \in 1..Len(m.order) |->
                        [name |-> m.order[i], value |-> m.features[m.order[i]]]])
        metadata ==
            ObjectOf([i \in 1..Len(m.metadata) |->
                        [name |-> m.metadata[i].name,
                         value |-> m.metadata[i].meta]])
    IN  [features |-> features,
         metadata |-> IF Len(metadata.keys) > 0 THEN <<metadata>> ELSE <<>>]

-----------------------------------------------------------------------------
(* Raw configs, and the calls that parse and then use the manifest *)

\* A key that is an array index: a plain object lists it before the others.
one == <<"1">>

\* The order in which the members of a raw mapping are written.
WrittenOrder == <<default, fa, fb, upperName, dottedName, one>>

MaxKeys == 3

\* The members name -> list of the names D, as written.
MembersOf(D, g) ==
    LET names == Restrict(WrittenOrder, D)
    IN [i \in 1..Len(names) |-> [name |-> names[i], value |-> g[names[i]]]]

RawMetadata ==
    {<<>>, <<EmptyObject>>}
    \cup {<<ObjectOf(<<[name |-> n, value |-> x]>>)>> :
            n \in {fa, one},
            x \in {[deprecated |-> TRUE, deprecatedMessage |-> NoMessage]}}

\* Raw mappings with well-formed and malformed names, declared and
\* undeclared targets, self-references and cycles.
RawConfigs ==
    {[features |-> ObjectOf(MembersOf(D, g)), metadata |-> md] :
        <<D, g, md>> \in
            UNION {{D} \X ListsOver(D, {fa, fb, fc}, MaxDeps, MaxDeps)
                       \X RawMetadata :
                    D \in {S \in SUBSET Range(WrittenOrder) :
                            Cardinality(S) <= MaxKeys}}}

ParseOptionsSet ==
    [features : {<<>>, <<fa>>, <<fb, fa>>},
     noDefaultFeatures : BOOLEAN,
     allFeatures : BOOLEAN]

InitParse ==
    /\ EngineIdle
    /\ pc = "parse"
    /\ heap = <<>>
    /\ \E config \in RawConfigs : call = Pending("parseManifest", <<config>>)

\* parseManifest(config) returns its manifest.
CallParseManifest ==
    /\ pc = "parse"
    /\ manifest' = parseManifest(call.args[1])
    /\ call' = Return(call, "manifest")
    /\ pc' = "parsed"
    /\ UNCHANGED <<heap, tree, idx, resolveVars, validateVars>>

\* resolveFeatures(manifest, options) is entered with the parsed manifest.
CallResolveFeatures ==
    /\ pc = "parsed"
    /\ \E o \in ParseOptionsSet : options' = o
    /\ pc' = "resolve"
    /\ idx' = 1
    /\ enabled' = {}
    /\ enabledBy' = <<>>
    /\ stack' = <<>>
    /\ expansions' = [f \in DOMAIN manifest.features |-> 0]
    /\ UNCHANGED <<manifest, validateVars, apiVars>>

\* validateManifest(manifest) is entered with the parsed manifest.
CallValidateManifest ==
    /\ pc = "parsed"
    /\ pc' = "v-features"
    /\ idx' = 1
    /\ UNCHANGED <<manifest, voptions, errors, warnings, validation, exit>>
    /\ UNCHANGED <<resolveVars, apiVars>>

NextParse ==
    \/ CallParseManifest
    \/ CallResolveFeatures
    \/ CallValidateManifest
    \/ NextResolve
    \/ NextValidate

SpecParse == InitParse /\ [][NextParse]_vars

-----------------------------------------------------------------------------
(* buildFeatureTree *)

\* A FeatureTreeNode; isCircular is FALSE where the code leaves it undefined.
Node(name, children) ==
    [name |-> name, children |-> children, isCircular |-> FALSE]

CircularNode(name) ==
    [name |-> name, children |-> <<>>, isCircular |-> TRUE]

\* dep is followed: !dep.startsWith("dep:") && manifest.features.has(dep)
IsChild(m, dep) == ~StartsWith(dep, DepPrefix) /\ Has(m, dep)

\* buildNode(name, visited) and its loop over deps
RECURSIVE buildNode(_, _, _), BuildChildren(_, _, _)
buildNode(m, name, visited) ==
    IF name \in visited THEN CircularNode(name)
    ELSE Node(name, BuildChildren(m, Deps(m, name), visited \cup {name}))

BuildChildren(m, deps, nextVisited) ==
    IF deps = <<>> THEN <<>>
    ELSE (IF IsChild(m, Head(deps))
          THEN <<buildNode(m, Head(deps), nextVisited)>> ELSE <<>>)
            \o BuildChildren(m, Tail(deps), nextVisited)

\* const referenced: every name in an activation list of any feature
Referenced(m) == UNION {Range(m.features[f]) : f \in DOMAIN m.features}

\* !referenced.has(name) || name === "default"
IsRoot(m, name) == name \notin Referenced(m) \/ name = default

RECURSIVE RootNodes(_, _)
RootNodes(m, names) ==
    IF names = <<>> THEN <<>>
    ELSE (IF IsRoot(m, Head(names))
          THEN <<buildNode(m, Head(names), {})>> ELSE <<>>)
            \o RootNodes(m, Tail(names))

\* if (root): root, <<>> when undefined, is given and is not the empty string
RootGiven(root) == root # <<>> /\ root[1] # <<>>

\* buildFeatureTree(manifest, root) as one function of its arguments
buildFeatureTree(m, root) ==
    IF RootGiven(root)
    THEN IF ~Has(m, root[1]) THEN <<>>
         ELSE <<buildNode(m, root[1], {})>>
    ELSE RootNodes(m, Keys(m))

\* The same function step by step. A frame of stack is a running buildNode:
\* its name, its nextVisited, the index of the next dep and the children
\* pushed so far; options holds the root argument.
TreeFrame(name, visited) ==
    [name |-> name, visited |-> visited \cup {name}, next |-> 1,
     children |-> <<>>]

TreeRunning == pc \in {"tree-root", "tree-roots"}

\* buildFeatureTree is entered: the branch on root.
TreeBegin ==
    /\ pc = "tree"
    /\ IF RootGiven(options.root)
       THEN IF ~Has(manifest, options.root[1])
            THEN pc' = "tree-returned" /\ stack' = stack
            ELSE /\ pc' = "tree-root"
                 /\ stack' = <<TreeFrame(options.root[1], {})>>
       ELSE pc' = "tree-roots" /\ stack' = stack
    /\ idx' = 1
    /\ tree' = <<>>
    /\ UNCHANGED <<manifest, options, enabled, enabledBy, expansions>>
    /\ UNCHANGED <<validateVars, call, heap>>

\* One iteration of "for (const name of manifest.features.keys())", or the
\* return of roots after the last one.
TreeRoots ==
    /\ pc = "tree-roots"
    /\ stack = <<>>
    /\ IF idx <= Len(Keys(manifest))
       THEN /\ stack' = IF IsRoot(manifest, Keys(manifest)[idx])
                        THEN <<TreeFrame(Keys(manifest)[idx], {})>>
                        ELSE stack
            /\ idx' = idx + 1
            /\ pc' = pc
       ELSE /\ pc' = "tree-returned"
            /\ UNCHANGED <<idx, stack>>
    /\ UNCHANGED <<manifest, options, enabled, enabledBy, expansions>>
    /\ UNCHANGED <<validateVars, apiVars>>

\* One iteration of "for (const dep of deps)" in the innermost buildNode: the
\* dep is skipped, or buildNode(dep, nextVisited) returns a circular node at
\* once, or it is entered.
TreeVisit ==
    /\ TreeRunning
    /\ stack # <<>>
    /\ Top.next <= Len(Deps(manifest, Top.name))
    /\ LET dep == Deps(manifest, Top.name)[Top.next]
           advanced == [stack EXCEPT ![Len(stack)].next = @ + 1]
       IN stack' =
            IF ~IsChild(manifest, dep) THEN advanced
            ELSE IF dep \in Top.visited
            THEN [advanced EXCEPT ![Len(stack)].children =
                    Append(@, CircularNode(dep))]
            ELSE Append(advanced, TreeFrame(dep, Top.visited))
    /\ UNCHANGED <<manifest, options, pc, idx, enabled, enabledBy, expansions>>
    /\ UNCHANGED <<validateVars, apiVars>>

\* The innermost buildNode returns its node: to the children of its caller,
\* or to the list buildFeatureTree returns.
TreeReturn ==
    /\ TreeRunning
    /\ stack # <<>>
    /\ Top.next > Len(Deps(manifest, Top.name))
    /\ LET node == Node(Top.name, Top.children)
           rest == SubSeq(stack, 1, Len(stack) - 1)
       IN IF rest # <<>>
          THEN /\ stack' = [rest EXCEPT ![Len(rest)].children = Append(@, node)]
               /\ UNCHANGED <<tree, pc>>
          ELSE /\ stack' = rest
               /\ tree' = Append(tree, node)
               /\ pc' = IF pc = "tree-root" THEN "tree-returned" ELSE pc
    /\ UNCHANGED <<manifest, options, idx, enabled, enabledBy, expansions>>
    /\ UNCHANGED <<validateVars, call, heap>>

NextTree ==
    \/ TreeBegin
    \/ TreeRoots
    \/ TreeVisit
    \/ TreeReturn

\* The roots asked for: none, the empty text, declared and undeclared names.
TreeRootInputs == {<<>>, <<<<>>>>, <<default>>, <<fa>>, <<fb>>, <<depx>>}

MaxTreeEdges == 3

TreeManifests ==
    UNION {ManifestsOver(D, {fa, fb, fc, depx}, MaxDeps, MaxTreeEdges, <<>>) :
            D \in SUBSET {default, fa, fb, fc}}

InitTree ==
    /\ manifest \in TreeManifests
    /\ \E root \in TreeRootInputs : options = [root |-> root]
    /\ pc = "tree"
    /\ idx = 1
    /\ enabled = {}
    /\ enabledBy = <<>>
    /\ stack = <<>>
    /\ expansions = <<>>
    /\ voptions = <<>>
    /\ errors = <<>>
    /\ warnings = <<>>
    /\ validation = <<>>
    /\ exit = <<>>
    /\ tree = <<>>
    /\ call = <<>>
    /\ heap = <<>>

SpecTree == InitTree /\ [][NextTree]_vars

\* buildFeatureTree is synchronous: once entered it runs to its return.
SpecTreeLive == SpecTree /\ WF_vars(NextTree)

-----------------------------------------------------------------------------
(* toRawConfig and back *)

ten == <<"1", "0">>

\* The insertion orders of the names D.
Orders(D) == {s \in [1..Cardinality(D) -> D] : Range(s) = D}

\* Metadata Maps: no entry, one entry, two entries in either order.
RoundTripMetadata ==
    {<<>>}
    \cup {<<[name |-> n, meta |-> x]>> : n \in {fa, one}, x \in Metas}
    \cup {<<[name |-> n[1], meta |-> x], [name |-> n[2], meta |-> y]>> :
            n \in {<<fa, one>>, <<one, fa>>, <<ten, one>>},
            x \in {[deprecated |-> TRUE, deprecatedMessage |-> NoMessage]},
            y \in Metas}

\* Manifests built by any means: the keys in any insertion order, lists that
\* are empty, repeat a name or name an undeclared feature.
RoundTripManifests ==
    {[order |-> s, features |-> g, metadata |-> md] :
        <<s, g, md>> \in
            UNION {Orders(D) \X ListsOver(D, {fa, fb}, MaxDeps, MaxDeps)
                        \X RoundTripMetadata :
                    D \in SUBSET {default, fa, one, ten}}}

InitRoundTrip ==
    /\ EngineIdle
    /\ pc = "call"
    /\ heap = <<>>
    /\ \E m \in RoundTripManifests : call = Pending("toRawConfig", <<m>>)

CallToRawConfig ==
    /\ pc = "call"
    /\ call.op = "toRawConfig"
    /\ call' = Return(call, toRawConfig(call.args[1]))
    /\ pc' = "raw"
    /\ UNCHANGED <<heap, tree, manifest, idx, resolveVars, validateVars>>

\* parseManifest(raw) on the raw config toRawConfig returned.
ParseRawConfig ==
    /\ pc = "raw"
    /\ manifest' = parseManifest(call.result[1])
    /\ pc' = "round-trip"
    /\ UNCHANGED <<call, heap, tree, idx, resolveVars, validateVars>>

NextRoundTrip ==
    \/ CallToRawConfig
    \/ ParseRawConfig

SpecRoundTrip == InitRoundTrip /\ [][NextRoundTrip]_vars

-----------------------------------------------------------------------------
(* Calls on independent manifests, interleaved *)

\* validateManifest as one function of its arguments: the same checks, with
\* the loops run to their end.
RECURSIVE FeatureErrors(_, _)
FeatureErrors(m, names) ==
    IF names = <<>> THEN <<>>
    ELSE LET name == Head(names)
             deps == Deps(m, name)
         IN (IF ~isValidFeatureIdOrDefault(name)
             THEN <<InvalidNameError(name)>> ELSE <<>>)
            \o (IF Includes(deps, name)
                THEN <<SelfReferenceError(name)>> ELSE <<>>)
            \o ReferenceErrors(deps, name, DOMAIN m.features)
            \o FeatureErrors(m, Tail(names))

ValidateManifest(m, vo) ==
    LET available == vo # <<>> /\ vo[1].dependencies # <<>>
        missing ==
            IF available
            THEN MissingDependencies(
                    extractExternalReferences(m),
                    getAllDependencyNames(vo[1].dependencies[1]))
            ELSE <<>>
        strict == available /\ vo[1].strictDependencies
        errs == FeatureErrors(m, Keys(m))
                \o CycleErrors(detectCycles(m))
                \o (IF strict THEN missing ELSE <<>>)
        warns == (IF strict THEN <<>> ELSE missing)
                \o UnknownMetadataWarnings(m.metadata, DOMAIN m.features)
                \o DeprecatedWarnings(m.metadata)
                \o (IF ~Has(m, default) THEN <<NoDefaultWarning>> ELSE <<>>)
                \o (IF Has(m, default) /\ Len(Deps(m, default)) = 0
                    THEN <<EmptyDefaultWarning>> ELSE <<>>)
    IN  [valid |-> Len(errs) = 0, errors |-> errs, warnings |-> warns]

Resolving == pc \in {"resolve", "all", "default", "explicit"}

\* Everything a running call holds: its arguments, its position and its
\* locals. The code has no module-level state.
CurrentFrame ==
    [manifest |-> manifest, options |-> options, pc |-> pc, idx |-> idx,
     enabled |-> enabled, enabledBy |-> enabledBy, stack |-> stack,
     expansions |-> expansions, voptions |-> voptions, errors |-> errors,
     warnings |-> warnings, validation |-> validation, exit |-> exit,
     tree |-> tree]

\* The frame of a call that has just been entered.
EntryFrame(kind, m, o) ==
    [manifest |-> m, options |-> o,
     pc |-> CASE kind = "resolveFeatures" -> "resolve"
              [] kind = "validateManifest" -> "v-features"
              [] kind = "buildFeatureTree" -> "tree",
     idx |-> 1, enabled |-> {}, enabledBy |-> <<>>, stack |-> <<>>,
     expansions |-> [f \in DOMAIN m.features |-> 0], voptions |-> <<>>,
     errors |-> <<>>, warnings |-> <<>>, validation |-> <<>>, exit |-> <<>>,
     tree |-> <<>>]

\* The slot of the call that is running.
RunningSlot == [pc |-> "running"]

\* Variant: the set enabled is shared by all calls instead of being a local
\* of each resolveFeatures call.
Switch_SharedEnabled ==
    \E next \in (1..Len(heap)) \ {call.running} :
        /\ heap' = [heap EXCEPT ![call.running] = CurrentFrame,
                                ![next] = RunningSlot]
        /\ call' = [call EXCEPT !.running = next]
        /\ manifest' = heap[next].manifest
        /\ options' = heap[next].options
        /\ pc' = heap[next].pc
        /\ idx' = heap[next].idx
        /\ enabled' = enabled
        /\ enabledBy' = heap[next].enabledBy
        /\ stack' = heap[next].stack
        /\ expansions' = heap[next].expansions
        /\ voptions' = heap[next].voptions
        /\ errors' = heap[next].errors
        /\ warnings' = heap[next].warnings
        /\ validation' = heap[next].validation
        /\ exit' = heap[next].exit
        /\ tree' = heap[next].tree

\* Another call takes its next steps: the frame of the running call is set
\* aside and the frame of the other call is the current one.
Switch ==
    \E next \in (1..Len(heap)) \ {call.running} :
        /\ heap' = [heap EXCEPT ![call.running] = CurrentFrame,
                                ![next] = RunningSlot]
        /\ call' = [call EXCEPT !.running = next]
        /\ manifest' = heap[next].manifest
        /\ options' = heap[next].options
        /\ pc' = heap[next].pc
        /\ idx' = heap[next].idx
        /\ enabled' = heap[next].enabled
        /\ enabledBy' = heap[next].enabledBy
        /\ stack' = heap[next].stack
        /\ expansions' = heap[next].expansions
        /\ voptions' = heap[next].voptions
        /\ errors' = heap[next].errors
        /\ warnings' = heap[next].warnings
        /\ validation' = heap[next].validation
        /\ exit' = heap[next].exit
        /\ tree' = heap[next].tree

\* The manifests of a workspace: two features, chains, self-references and
\* the cycle a -> b -> a.
InterleaveManifests ==
    UNION {ManifestsOver(D, {fa, fb}, 1, MaxDeps, <<>>) :
            D \in {{default, fa}, {fa, fb}}}

InterleaveCalls ==
    {[kind |-> "resolveFeatures", manifest |-> m, options |-> o] :
        m \in InterleaveManifests,
        o \in {[features |-> <<fa>>, noDefaultFeatures |-> FALSE,
                allFeatures |-> FALSE],
               [features |-> <<>>, noDefaultFeatures |-> FALSE,
                allFeatures |-> TRUE]}}
    \cup {[kind |-> "validateManifest", manifest |-> m,
           options |-> [features |-> <<>>, noDefaultFeatures |-> FALSE,
                        allFeatures |-> FALSE]] :
            m \in InterleaveManifests}
    \cup {[kind |-> "buildFeatureTree", manifest |-> m,
           options |-> [root |-> r]] :
            m \in InterleaveManifests, r \in {<<>>, <<fa>>}}

MaxCalls == 2

InitInterleave ==
    \E inputs \in UNION {[1..n -> InterleaveCalls] : n \in 2..MaxCalls} :
        LET frames == [i \in 1..Len(inputs) |->
                        EntryFrame(inputs[i].kind, inputs[i].manifest,
                                   inputs[i].options)]
        IN  /\ call = [running |-> 1, inputs |-> inputs]
            /\ heap = [frames EXCEPT ![1] = RunningSlot]
            /\ manifest = frames[1].manifest
            /\ options = frames[1].options
            /\ pc = frames[1].pc
            /\ idx = frames[1].idx
            /\ enabled = frames[1].enabled
            /\ enabledBy = frames[1].enabledBy
            /\ stack = frames[1].stack
            /\ expansions = frames[1].expansions
            /\ voptions = frames[1].voptions
            /\ errors = frames[1].errors
            /\ warnings = frames[1].warnings
            /\ validation = frames[1].validation
            /\ exit = frames[1].exit
            /\ tree = frames[1].tree

StepResolve == Resolving /\ NextResolve

NextInterleave ==
    \/ Switch
    \/ StepResolve
    \/ NextValidate
    \/ NextTree

SpecInterleave == InitInterleave /\ [][NextInterleave]_vars

-----------------------------------------------------------------------------
(* Properties of resolveFeatures *)

Declared(m) == DOMAIN m.features

\* The activation-target relation between declared features.
Successors(m, f) == Range(Deps(m, f)) \cap Declared(m)

\* The declared features reachable from S by zero or more edges.
RECURSIVE ReachableFrom(_, _)
ReachableFrom(m, S) ==
    LET T == S \cup UNION {Successors(m, f) : f \in S}
    IN IF T = S THEN S ELSE ReachableFrom(m, T)

HasCycle(m) ==
    \E f \in Declared(m) : f \in ReachableFrom(m, Successors(m, f))

\* The roots the driver activates.
ActivatedRoots(m, o) ==
    IF o.allFeatures THEN Declared(m)
    ELSE (IF Has(m, default) /\ ~o.noDefaultFeatures THEN {default} ELSE {})
         \cup (Range(o.features) \cap Declared(m))

Resolved == pc = "resolved"

\* Steps the running call has left at most: the driver's own, the loop
\* iterations and returns of the frames on the stack, and one expansion of
\* every feature not enabled yet.
RECURSIVE FrameWork(_)
FrameWork(frames) ==
    IF frames = <<>> THEN 0
    ELSE (Len(Deps(manifest, Head(frames).feature)) + 2) - Head(frames).next
         + FrameWork(Tail(frames))

RECURSIVE PendingWork(_)
PendingWork(S) ==
    IF S = {} THEN 0
    ELSE LET f == CHOOSE g \in S : TRUE
         IN Len(Deps(manifest, f)) + 1 + PendingWork(S \ {f})

DriverWork ==
    CASE pc = "resolve" -> Len(Keys(manifest)) + Len(options.features) + 4
      [] pc = "all" -> (Len(Keys(manifest)) + 2) - idx
      [] pc = "default" -> Len(options.features) + 2
      [] pc = "explicit" -> (Len(options.features) + 2) - idx
      [] OTHER -> 0

WorkLeft ==
    DriverWork + FrameWork(stack) + PendingWork(Declared(manifest) \ enabled)

\* Every step uses up work, and a call that has not returned can step.
Terminates ==
    /\ [][WorkLeft' < WorkLeft]_vars
    /\ [](~Resolved => ENABLED NextResolve)

\* C1: on a manifest without cycles and with allFeatures unset,
\* resolveFeatures terminates and enables exactly the declared features
\* reachable from the activated roots ("default" when declared and not
\* suppressed, plus the declared names of options.features).
C1_AcyclicReachable ==
    /\ []((Resolved /\ ~options.allFeatures /\ ~HasCycle(manifest))
            => enabled = ReachableFrom(manifest,
                                       ActivatedRoots(manifest, options)))
    /\ [][WorkLeft' < WorkLeft \/ HasCycle(manifest)]_vars
    /\ [](Resolved \/ ENABLED NextResolve \/ HasCycle(manifest))

\* A chain default -> a -> b -> c resolved in full from the default root.
C1_Witness ==
    /\ Resolved
    /\ ~HasCycle(manifest) /\ ~options.allFeatures
    /\ ~options.noDefaultFeatures /\ options.features = <<>>
    /\ Deps(manifest, default) = <<fa>>
    /\ Deps(manifest, fa) = <<fb>>
    /\ Deps(manifest, fb) = <<fc>>
    /\ enabled = {default, fa, fb, fc}

\* C2: on manifests with self-references or cycles resolveFeatures still
\* terminates for every options value, no feature's targets are expanded
\* more than once, and the enabled set is the set reachable from the roots.
C2_CyclicTerminates ==
    /\ []((\E f \in Declared(manifest) : expansions[f] > 1)
            => ~HasCycle(manifest))
    /\ []((Resolved /\ HasCycle(manifest))
            => enabled = ReachableFrom(manifest,
                                       ActivatedRoots(manifest, options)))
    /\ [][WorkLeft' < WorkLeft \/ ~HasCycle(manifest)]_vars
    /\ [](Resolved \/ ENABLED NextResolve \/ ~HasCycle(manifest))

\* A three-cycle a -> b -> c -> a entered at a, and a self-reference.
C2_Witness ==
    /\ Resolved
    /\ Deps(manifest, fa) = <<fb>>
    /\ Deps(manifest, fb) = <<fc, fb>>
    /\ Deps(manifest, fc) = <<fa>>
    /\ options.features = <<fa>> /\ ~options.allFeatures
    /\ enabled = {fa, fb, fc}

\* The options values that differ from o only in the order or repetition of
\* the names in features.
Reorderings(o) ==
    {[o EXCEPT !.features = s] :
        s \in {t \in SeqsUpTo(RequestUniverse, MaxRequested) :
                    Range(t) = Range(o.features)}}

\* C3: two options values that differ only in the order or repetition of
\* the names in options.features give the same enabled set.
C3_OrderIndependent ==
    Resolved =>
        \A o \in Reorderings(options) :
            ResolveFeatures(manifest, o).enabled = enabled

\* [a, b] against [b, a], where a and b activate different features.
C3_Witness ==
    /\ Resolved
    /\ options.features = <<fa, fb>> /\ ~options.allFeatures
    /\ options.noDefaultFeatures
    /\ Deps(manifest, fa) = <<fc>>
    /\ Has(manifest, fb) /\ Has(manifest, fc) /\ Deps(manifest, fb) = <<fa>>
    /\ [options EXCEPT !.features = <<fb, fa>>] \in Reorderings(options)
    /\ enabled = {fa, fb, fc}

Causes(f) == Range(MapGetOrEmpty(enabledBy, f))

\* C4: with allFeatures set the enabled set is the set of manifest keys,
\* whatever features and noDefaultFeatures are; every enabler list contains
\* "<all-features>" and none contains "<default>" or "<explicit>".
C4_AllFeatures ==
    (Resolved /\ options.allFeatures) =>
        /\ enabled = Declared(manifest)
        /\ DOMAIN enabledBy = Declared(manifest)
        /\ \A f \in Declared(manifest) :
            /\ CauseAllFeatures \in Causes(f)
            /\ CauseDefault \notin Causes(f)
            /\ CauseExplicit \notin Causes(f)

\* allFeatures together with noDefaultFeatures and a features list.
C4_Witness ==
    /\ Resolved /\ options.allFeatures
    /\ options.noDefaultFeatures /\ options.features = <<fa>>
    /\ Declared(manifest) = {default, fa, fb, fc}
    /\ Deps(manifest, default) = <<fa>>
    /\ enabled = {default, fa, fb, fc}

\* C5: with allFeatures unset, "default" is activated with cause "<default>"
\* exactly when it is declared and noDefaultFeatures is unset, and exactly
\* the declared names of options.features are activated with cause
\* "<explicit>"; so nothing is enabled with noDefaultFeatures and no
\* features, nor with no options on a manifest without "default".
C5_DefaultAndExplicit ==
    (Resolved /\ ~options.allFeatures) =>
        /\ \A f \in FeatureUniverse \cup TargetUniverse :
            /\ CauseDefault \in Causes(f)
                <=> (f = default /\ Has(manifest, default)
                        /\ ~options.noDefaultFeatures)
            /\ CauseExplicit \in Causes(f)
                <=> (Has(manifest, f) /\ Includes(options.features, f))
            /\ CauseAllFeatures \notin Causes(f)
            /\ Causes(f) # {} => f \in enabled
        /\ (options.noDefaultFeatures /\ options.features = <<>>)
                => enabled = {}
        /\ (~options.noDefaultFeatures /\ options.features = <<>>
                /\ ~Has(manifest, default)) => enabled = {}

\* "default" suppressed while a requested feature is resolved.
C5_Witness ==
    /\ Resolved /\ ~options.allFeatures
    /\ options.noDefaultFeatures /\ options.features = <<fa>>
    /\ Deps(manifest, default) = <<fb>> /\ Has(manifest, default)
    /\ Has(manifest, fb)
    /\ enabled = {fa}
    /\ enabledBy[fa] = <<CauseExplicit>>

\* C6: every enabled name and every key of enabledBy is a key of the
\* manifest; an undeclared name in options.features or in an activation
\* list (an external reference included) is ignored, and isFeatureEnabled
\* is false for it.
C6_OnlyDeclaredEnabled ==
    /\ enabled \subseteq Declared(manifest)
    /\ DOMAIN enabledBy \subseteq Declared(manifest)
    /\ \A f \in FeatureUniverse \cup TargetUniverse \cup RequestUniverse :
        ~Has(manifest, f) => ~isFeatureEnabled(f)

\* An undeclared requested name, an undeclared target and dep:x as a target,
\* all passed over.
C6_Witness ==
    /\ Resolved /\ ~options.allFeatures
    /\ options.features = <<fa, fb>>
    /\ ~Has(manifest, fb) /\ ~Has(manifest, fc)
    /\ Deps(manifest, fa) = <<depx, fc>>
    /\ enabled = {fa}

NoDuplicates(s) == \A i, j \in 1..Len(s) : s[i] = s[j] => i = j

\* The sentinel causes under which the driver activates f directly.
DirectCauses(m, o, f) ==
    IF o.allFeatures THEN {CauseAllFeatures}
    ELSE (IF f = default /\ ~o.noDefaultFeatures THEN {CauseDefault} ELSE {})
         \cup (IF Includes(o.features, f) THEN {CauseExplicit} ELSE {})

\* C7: in every result enabledBy has an entry for exactly the enabled
\* features; the entry of f has no duplicates and holds exactly the sentinel
\* causes under which f was activated directly and every enabled feature
\* whose activation list contains f.
C7_EnablersExact ==
    Resolved =>
        /\ DOMAIN enabledBy = enabled
        /\ \A f \in enabled :
            /\ NoDuplicates(enabledBy[f])
            /\ Range(enabledBy[f]) =
                DirectCauses(manifest, options, f)
                \cup {g \in enabled : Includes(Deps(manifest, g), f)}

\* The diamond default -> {a, b} -> c: c is enabled, by a and by b.
C7_Witness ==
    /\ Resolved /\ ~options.allFeatures
    /\ ~options.noDefaultFeatures /\ options.features = <<>>
    /\ Deps(manifest, default) = <<fa, fb>>
    /\ Deps(manifest, fa) = <<fc>>
    /\ Deps(manifest, fb) = <<fc>>
    /\ Has(manifest, fc) /\ Deps(manifest, fc) = <<>>
    /\ enabled = {default, fa, fb, fc}
    /\ enabledBy[fc] = <<fa, fb>>

-----------------------------------------------------------------------------
(* Properties of validateManifest *)

Returned == validation # <<>>
Result == validation[1]

\* C8: validateManifest returns valid = true exactly when its error list is
\* empty; warnings never make a manifest invalid; the validate command exits
\* 1 exactly when there is at least one error.
C8_ValidIffNoErrors ==
    /\ Returned =>
        /\ Result.valid <=> Len(Result.errors) = 0
        /\ Result.errors = errors /\ Result.warnings = warnings
        /\ (Len(Result.errors) = 0 /\ Len(Result.warnings) > 0) => Result.valid
    /\ pc = "exited" =>
        /\ exit \in {<<0>>, <<1>>}
        /\ exit = <<1>> <=> Len(Result.errors) >= 1

\* Metadata for an undeclared feature, a deprecation without message and an
\* empty "default": three warnings, valid, exit code 0.
C8_Witness ==
    /\ pc = "exited"
    /\ exit = <<0>>
    /\ Result.valid
    /\ {UnknownMetadataWarning(fb), DeprecatedWarning(fa), EmptyDefaultWarning}
            \subseteq Range(Result.warnings)
    /\ Len(Result.errors) = 0

\* A reference to a local feature: neither dep:<package> nor <package>:<feature>.
IsLocalReference(ref) == ~StartsWith(ref, DepPrefix) /\ ~isDepFeatureRef(ref)

UndeclaredLocalTargets(m) ==
    {<<f, Deps(m, f)[i]>> : <<f, i>> \in
        {<<g, j>> \in Declared(m) \X (1..MaxDeps + MaxEdges) :
            /\ j <= Len(Deps(m, g))
            /\ IsLocalReference(Deps(m, g)[j])
            /\ ~Has(m, Deps(m, g)[j])}}

UnknownFeatureErrors(errs) ==
    {e \in Range(errs) : e.template = UnknownFeatureError(<<>>, <<>>).template}

C10_SelfReference ==
    Returned =>
        \A f \in Declared(manifest) :
            /\ Includes(Deps(manifest, f), f)
                => /\ ~Result.valid
                   /\ SelfReferenceError(f) \in Range(Result.errors)
            /\ SelfReferenceError(f) \in Range(Result.errors)
                => Includes(Deps(manifest, f), f)

\* default: [default]
C10_Witness ==
    /\ Returned
    /\ Has(manifest, default)
    /\ Deps(manifest, default) = <<default>>
    /\ ~Result.valid
    /\ SelfReferenceError(default) \in Range(Result.errors)

-----------------------------------------------------------------------------
(* Properties of detectCycles *)

\* The graph of declared features: edges only to targets that are declared
\* and are not external references.
LocalSuccessors(m, f) ==
    {t \in Range(Deps(m, f)) : Has(m, t) /\ IsLocalReference(t)}

RECURSIVE LocalReachableFrom(_, _)
LocalReachableFrom(m, S) ==
    LET T == S \cup UNION {LocalSuccessors(m, f) : f \in S}
    IN IF T = S THEN S ELSE LocalReachableFrom(m, T)

OnLocalCycle(m, f) == f \in LocalReachableFrom(m, LocalSuccessors(m, f))

HasLocalCycle(m) == \E f \in Declared(m) : OnLocalCycle(m, f)

\* The features on one cycle with f.
CycleClass(m, f) ==
    {g \in LocalReachableFrom(m, {f}) : f \in LocalReachableFrom(m, {g})}

-----------------------------------------------------------------------------
(* Properties of the cycle errors *)

Arrow == <<" ", "-", ">", " ">>

\* names[1] -> names[2] -> ... -> names[n], written left to right.
RECURSIVE ArrowPath(_, _)
ArrowPath(names, n) ==
    IF n = 0 THEN <<>>
    ELSE IF n = 1 THEN names[1]
    ELSE ArrowPath(names, n - 1) \o Arrow \o names[n]

\* The "Circular dependency detected" errors of a list, in order.
CircularErrors(errs) ==
    SelectSeq(errs, LAMBDA e : e.template = CycleError(<<>>).template)

\* C12: validateManifest adds exactly one "Circular dependency detected"
\* error per cycle of detectCycles, in order; its text is the names of the
\* cycle joined by " -> ", the starting name repeated at the end; a manifest
\* whose local-feature graph has a cycle is reported invalid.
C12_CycleErrors ==
    Returned =>
        LET cycles == detectCycles(manifest)
            found == CircularErrors(Result.errors)
        IN  /\ Len(found) = Len(cycles)
            /\ \A i \in 1..Len(cycles) :
                /\ found[i].args = <<ArrowPath(cycles[i], Len(cycles[i]))>>
                /\ Len(cycles[i]) >= 2
                /\ cycles[i][1] = cycles[i][Len(cycles[i])]
            /\ HasLocalCycle(manifest) => ~Result.valid /\ Len(found) >= 1

\* a: [b], b: [a], c: [c] : "a -> b -> a" and "c -> c".
C12_Witness ==
    /\ Returned
    /\ ~Result.valid
    /\ Len(CircularErrors(Result.errors)) = 2
    /\ CircularErrors(Result.errors)[1].args
        = <<<<"a", " ", "-", ">", " ", "b", " ", "-", ">", " ", "a">>>>
    /\ CircularErrors(Result.errors)[2].args
        = <<<<"c", " ", "-", ">", " ", "c">>>>

-----------------------------------------------------------------------------
(* Properties of the name checks *)

\* Kebab-case, said by segments: the text splits at "-" into non-empty
\* segments of lowercase letters and digits, the first one starting with a
\* letter.
KebabCase(s) ==
    /\ s # <<>>
    /\ LET segments == Split(s, "-")
       IN  /\ \A i \in 1..Len(segments) :
                /\ segments[i] # <<>>
                /\ Range(segments[i]) \subseteq Lower \cup Digit
           /\ segments[1][1] \in Lower

HasReferenceShape(name) == StartsWith(name, DepPrefix) \/ isDepFeatureRef(name)

InvalidNameErrors(errs) ==
    {e \in Range(errs) : e.template = InvalidNameError(<<>>).template}

-----------------------------------------------------------------------------
(* Properties of the dependency checks *)

\* The package an external reference names: the text after "dep:", or the
\* text before the first ':'.
PackageOf(ref) ==
    IF StartsWith(ref, DepPrefix) THEN Slice(ref, 4) ELSE Split(ref, ":")[1]

DependencyKinds ==
    {"dependencies", "optionalDependencies", "peerDependencies",
     "devDependencies"}

\* The positions <<feature, i>> of the external references whose package
\* is in none of the four maps of deps.
MissingOccurrences(m, deps) ==
    {fi \in Declared(m) \X (1..MaxDeps + MaxEdges) :
        /\ fi[2] <= Len(Deps(m, fi[1]))
        /\ ~IsLocalReference(Deps(m, fi[1])[fi[2]])
        /\ \A kind \in DependencyKinds :
            PackageOf(Deps(m, fi[1])[fi[2]]) \notin deps[kind]}

ExistenceMessages(msgs) ==
    SelectSeq(msgs,
        LAMBDA e : e.template = MissingDependencyMessage(
            [feature |-> <<>>, packageName |-> <<>>,
             reference |-> <<>>]).template)

DependenciesGiven == voptions # <<>> /\ voptions[1].dependencies # <<>>

-----------------------------------------------------------------------------
(* Properties of <package>:<feature> references *)

\* A package name, said by parts: kebab-case, or "@", a kebab-case scope,
\* "/", and a kebab-case name.
PackageName(p) ==
    \/ KebabCase(p)
    \/ /\ p # <<>>
       /\ Head(p) = "@"
       /\ LET parts == Split(Tail(p), "/")
          IN  Len(parts) = 2 /\ KebabCase(parts[1]) /\ KebabCase(parts[2])

\* <package>:<feature>, split at the first ':'.
WellFormedPackageFeature(r) ==
    /\ Includes(r, ":")
    /\ PackageName(SubSeq(r, 1, IndexOf(r, ":") - 1))
    /\ KebabCase(SubSeq(r, IndexOf(r, ":") + 1, Len(r)))

\* An error of the reference check about entry r of feature f.
IsReferenceError(e, f, r) ==
    /\ Len(e.args) >= 2
    /\ e.args[1] = f /\ e.args[2] = r
    /\ e \notin Range(ExistenceMessages(<<e>>))

OnlyAcceptedTargets(m) ==
    \A f \in Declared(m) : \A r \in Range(Deps(m, f)) :
        \/ WellFormedPackageFeature(r)
        \/ IsLocalReference(r) /\ Has(m, r)

NoOtherDefect(m) ==
    /\ \A n \in Declared(m) : n = default \/ KebabCase(n)
    /\ ~HasLocalCycle(m)
    /\ ~(DependenciesGiven /\ voptions[1].strictDependencies)

-----------------------------------------------------------------------------
(* Properties of isValidFeatureId *)

Upper == {"B"}

-----------------------------------------------------------------------------
(* Properties of getEnableChain *)

\* C17: getEnableChain(name, resolved) is null exactly when name is not
\* enabled; otherwise it is a non-empty list without repeated names that
\* ends with name, in which each element is the first recorded enabler of
\* the element after it (so each consecutive pair is an activation edge)
\* and the first element's first recorded enabler is a sentinel cause.
C17_EnableChain ==
    (pc = "returned" /\ call.op = "getEnableChain") =>
        LET name == call.args[1]
            result == call.result[1]
        IN  /\ result = <<>> <=> name \notin enabled
            /\ result # <<>> =>
                LET chain == result[1]
                IN  /\ Len(chain) >= 1
                    /\ NoDuplicates(chain)
                    /\ chain[Len(chain)] = name
                    /\ \A i \in 1..Len(chain) - 1 :
                        /\ enabledBy[chain[i + 1]][1] = chain[i]
                        /\ Includes(Deps(manifest, chain[i]), chain[i + 1])
                    /\ enabledBy[chain[1]][1] \in Sentinels

\* default: [a], a: [b], b: [a] : the chain of b is default, a, b.
C17_Witness ==
    /\ pc = "returned"
    /\ call.op = "getEnableChain"
    /\ HasCycle(manifest)
    /\ call.args = <<fb>>
    /\ call.result = <<<<<<default, fa, fb>>>>>>

-----------------------------------------------------------------------------
(* Properties of the registry *)

\* The state createRegistry is to give a declared feature x.
InitialStateOf(x, definition, config) ==
    IF Includes(config.disabled, x) THEN <<FALSE, "explicit-disabled">>
    ELSE IF Includes(config.enabled, x) THEN <<TRUE, "explicit-enabled">>
    ELSE IF config.enableAll THEN <<TRUE, "enable-all">>
    ELSE IF config.disableAll THEN <<FALSE, "disable-all">>
    ELSE IF definition.defaultEnabled THEN <<TRUE, "default-enabled">>
    ELSE <<FALSE, "default-disabled">>

HeapKept == \A i \in 1..Len(heap) : heap'[i] = heap[i]

\* The value a call of setFeatureState / enableFeature / disableFeature sets.
ValueSet(c) ==
    IF c.op = "setFeatureState" THEN c.args[3] ELSE c.op = "enableFeature"

\* C19: setFeatureState, enableFeature and disableFeature never modify the
\* registry they are given: after the call its state map, schema and config
\* are as before, and the returned registry differs from it only in the
\* state of the one named feature.
C19_InputRegistryKept ==
    [][call'.op \in {"setFeatureState", "enableFeature", "disableFeature"} =>
        LET id == call'.args[2]
            before == heap[call'.args[1]]
            returned == heap'[call'.result[1]]
        IN  /\ HeapKept
            /\ call'.result[1] \notin 1..Len(heap)
            /\ returned.schema = before.schema
            /\ returned.config = before.config
            /\ DOMAIN returned.states = DOMAIN before.states \cup {id}
            /\ \A y \in DOMAIN returned.states \ {id} :
                    returned.states[y] = before.states[y]
            /\ returned.states[id].enabled = ValueSet(call')
      ]_vars

\* disableFeature(r, a) on a registry with a enabled: r still has a enabled.
C19_Witness ==
    /\ call # <<>>
    /\ call.op = "disableFeature"
    /\ call.args[2] = fa
    /\ isEnabled(heap[call.args[1]], fa)
    /\ ~isEnabled(heap[call.result[1]], fa)
    /\ heap[call.args[1]].states[fa].reason = "default-enabled"

\* C20: mergeRegistries(base, override) returns a new registry and leaves
\* both inputs unchanged; its schema declares the union of the features of
\* the two schemas, with override's definition on a collision, and each
\* feature's state is override's state when override has one and base's
\* state otherwise.
C20_MergeRegistries ==
    [][call'.op = "mergeRegistries" =>
        LET base == heap[call'.args[1]]
            override == heap[call'.args[2]]
            merged == heap'[call'.result[1]]
        IN  /\ HeapKept
            /\ call'.result[1] \notin 1..Len(heap)
            /\ DOMAIN merged.schema.features
                = DOMAIN base.schema.features \cup DOMAIN override.schema.features
            /\ \A x \in DOMAIN merged.schema.features :
                merged.schema.features[x]
                    = IF x \in DOMAIN override.schema.features
                      THEN override.schema.features[x]
                      ELSE base.schema.features[x]
            /\ DOMAIN merged.states = DOMAIN base.states \cup DOMAIN override.states
            /\ \A x \in DOMAIN merged.states :
                merged.states[x]
                    = IF x \in DOMAIN override.states
                      THEN override.states[x]
                      ELSE base.states[x]
      ]_vars

\* base declares a (enabled by default), override declares a (disabled by
\* default) and b: the merged registry has override's a and b.
C20_Witness ==
    /\ call # <<>>
    /\ call.op = "mergeRegistries"
    /\ call.args = <<1, 2>>
    /\ DOMAIN heap[1].schema.features = {fa}
    /\ heap[1].schema.features[fa].defaultEnabled
    /\ DOMAIN heap[2].schema.features = {fa, fb}
    /\ ~heap[2].schema.features[fa].defaultEnabled
    /\ isEnabled(heap[1], fa)
    /\ ~isEnabled(heap[3], fa)
    /\ DOMAIN heap[3].schema.features = {fa, fb}

-----------------------------------------------------------------------------
(* Properties of requireFeature *)

\* The reason code of the state of id in the registry; "default-disabled"
\* when id has no state.
ReasonCodeOf(registry, id) ==
    IF id \in DOMAIN registry.states THEN registry.states[id].reason
    ELSE "default-disabled"

\* What a call of requireFeature on registry and id must answer: thrown is
\* <<>> for a normal return and <<error>> for a raised error.
RequireContract(registry, id, thrown) ==
    /\ (thrown = <<>>) <=> isEnabled(registry, id)
    /\ thrown # <<>> =>
        /\ thrown[1].featureId = id
        /\ "state" \in DOMAIN thrown[1]
        /\ thrown[1].state.reason = ReasonCodeOf(registry, id)

\* C21: requireFeature returns normally exactly when the feature is enabled
\* in the registry; when it is not enabled (disabled, or absent from the
\* registry) the error it raises carries the feature name and the reason code
\* of the feature's state, default-disabled when the feature has no state.
C21_RequireFeature ==
    (pc = "returned" /\ call.op = "requireFeature") =>
        RequireContract(heap[call.args[1]], call.args[2], call.result[1])

\* The evaluation API's requireFeature keeps the same contract.
EvalRequireFeatureContract ==
    (pc = "returned" /\ call.op = "evalRequireFeature") =>
        RequireContract(heap[call.args[2]], call.args[1], call.result[1])

\* The registry API's requireFeature does return normally exactly when the
\* feature is enabled, and its error carries the feature name.
RequireFeatureThrowsWhenNotEnabled ==
    (pc = "returned" /\ call.op = "requireFeature") =>
        LET registry == heap[call.args[1]]
            id == call.args[2]
            thrown == call.result[1]
        IN  /\ (thrown = <<>>) <=> isEnabled(registry, id)
            /\ thrown # <<>> => thrown[1].featureId = id

-----------------------------------------------------------------------------
(* Properties of parseManifest *)

\* The manifest holds exactly the keys of the raw mapping, in its order, each
\* with its list; likewise the metadata entries.
ParsedAsGiven(config, m) ==
    /\ m.order = config.features.keys
    /\ DOMAIN m.features = Range(config.features.keys)
    /\ \A k \in DOMAIN m.features : m.features[k] = config.features.value[k]
    /\ IF config.metadata = <<>> THEN m.metadata = <<>>
       ELSE /\ Len(m.metadata) = Len(config.metadata[1].keys)
            /\ \A i \in 1..Len(m.metadata) :
                /\ m.metadata[i].name = config.metadata[1].keys[i]
                /\ m.metadata[i].meta
                    = config.metadata[1].value[m.metadata[i].name]

SelfReferences(m) == {f \in Declared(m) : Includes(Deps(m, f), f)}

InvalidNames(m) == {f \in Declared(m) : ~KebabCase(f) /\ f # default}

Defective(m) ==
    \/ InvalidNames(m) # {}
    \/ UndeclaredLocalTargets(m) # {}
    \/ SelfReferences(m) # {}
    \/ HasCycle(m)

\* C22: parseManifest never fails and performs no validation: for any raw
\* mapping (invalid names, undeclared targets, self-references, cycles) it
\* returns a manifest with exactly the given keys and activation lists in the
\* given order; resolveFeatures on such a manifest returns a result without
\* raising; the defects surface only as error strings of validateManifest.
C22_ParseNeverFails ==
    /\ [](pc = "parse" => ENABLED CallParseManifest)
    /\ [](pc # "parse" =>
            /\ ParsedAsGiven(call.args[1], manifest)
            /\ call.result = <<"manifest">>)
    /\ [](Resolving => ENABLED NextResolve)
    /\ [][Resolving => WorkLeft' < WorkLeft]_vars
    /\ []((Resolving \/ Resolved) =>
            /\ enabled \subseteq Declared(manifest)
            /\ errors = <<>> /\ warnings = <<>> /\ validation = <<>>)
    /\ [](pc = "parsed" => errors = <<>> /\ warnings = <<>>)
    /\ [](pc = "validated" =>
            /\ Defective(manifest) <=> ~Result.valid
            /\ InvalidNames(manifest) # {}
                => InvalidNameErrors(Result.errors) # {}
            /\ UndeclaredLocalTargets(manifest) # {}
                => UnknownFeatureErrors(Result.errors) # {}
            /\ \A f \in SelfReferences(manifest) :
                SelfReferenceError(f) \in Range(Result.errors)
            /\ HasCycle(manifest) => CircularErrors(Result.errors) # <<>>)

\* A raw mapping written with the keys a, B, "1" in that order, a: [a, c]
\* with c undeclared: parsed with "1" first, resolved with a enabled.
C22_Witness ==
    /\ Resolved
    /\ call.op = "parseManifest"
    /\ manifest.order = <<one, fa, upperName>>
    /\ Deps(manifest, fa) = <<fa, fc>>
    /\ Defective(manifest)
    /\ enabled = {fa}

-----------------------------------------------------------------------------
(* Properties of buildFeatureTree *)

TreeReturned == pc = "tree-returned"

\* On the way down from a node no name is expanded twice: a name already on
\* the path is a leaf flagged isCircular, any other node is not flagged.
RECURSIVE PathExpandsOnce(_, _)
PathExpandsOnce(node, path) ==
    IF node.name \in path
    THEN node.isCircular /\ node.children = <<>>
    ELSE /\ ~node.isCircular
         /\ \A i \in 1..Len(node.children) :
                PathExpandsOnce(node.children[i], path \cup {node.name})

\* What buildFeatureTree must return for the root r that was passed.
TreeOfRoot(m, r, nodes) ==
    /\ ~Has(m, r) => nodes = <<>>
    /\ Has(m, r) =>
        /\ Len(nodes) = 1
        /\ nodes[1].name = r
        /\ PathExpandsOnce(nodes[1], {})

\* C25: buildFeatureTree(manifest, root) returns the empty list when root is
\* not a declared feature and otherwise exactly one tree rooted at root; on
\* every manifest, cyclic ones included, construction terminates, and a name
\* that reappears on the path from the root to a node appears there only as a
\* node flagged isCircular with no children.
C25_TreeOfRoot ==
    /\ [](TreeReturned /\ options.root # <<>>
            => TreeOfRoot(manifest, options.root[1], tree))
    /\ <>TreeReturned

\* The same holds for every root that is not the empty text, and every
\* construction, with or without a root, terminates with the nodes of
\* buildFeatureTree, never deeper than the number of declared features.
TreeOfNonEmptyRoot ==
    /\ [](TreeReturned /\ RootGiven(options.root)
            => TreeOfRoot(manifest, options.root[1], tree))
    /\ [](TreeReturned => tree = buildFeatureTree(manifest, options.root))
    /\ [](Len(stack) <= Cardinality(Declared(manifest)))
    /\ <>TreeReturned

\* The root candidates: declared and not an activation target of any other
\* feature, and "default" when declared.
RootCandidates(m) ==
    {f \in Declared(m) :
        \/ f = default
        \/ \A g \in Declared(m) \ {f} : ~Includes(Deps(m, g), f)}

\* C26: with no root argument buildFeatureTree returns exactly one tree per
\* root candidate: every declared feature not referenced as an activation
\* target by any other feature, plus "default" whenever it is declared.
C26_OneTreePerRoot ==
    (TreeReturned /\ options.root = <<>>) =>
        /\ Len(tree) = Cardinality(RootCandidates(manifest))
        /\ {tree[i].name : i \in 1..Len(tree)} = RootCandidates(manifest)

\* What the code computes: a feature that lists itself is referenced too.
OneTreePerUnreferenced ==
    (TreeReturned /\ options.root = <<>>) =>
        LET roots == {f \in Declared(manifest) :
                        f = default \/ f \notin Referenced(manifest)}
        IN  /\ Len(tree) = Cardinality(roots)
            /\ {tree[i].name : i \in 1..Len(tree)} = roots
            /\ \A i \in 1..Len(tree) :
                tree[i] = buildNode(manifest, tree[i].name, {})

-----------------------------------------------------------------------------
(* Properties of toRawConfig *)

\* The entries of a metadata Map, as a set.
MetadataEntries(m) == Range(m.metadata)

\* C24: parseManifest(toRawConfig(m)) is equal to m on features and metadata
\* for every manifest m: the same feature names, each with the same
\* activation list in the same order, and the same metadata entries.
C24_RoundTrip ==
    pc = "round-trip" =>
        LET m == call.args[1]
        IN  /\ DOMAIN manifest.features = DOMAIN m.features
            /\ Range(manifest.order) = Range(m.order)
            /\ Len(manifest.order) = Len(m.order)
            /\ \A name \in DOMAIN m.features :
                manifest.features[name] = m.features[name]
            /\ MetadataEntries(manifest) = MetadataEntries(m)
            /\ Len(manifest.metadata) = Len(m.metadata)

\* A Map with the keys a, "10", "1" in that order and metadata for a: the
\* raw object lists "1" and "10" first, the lists and the metadata are kept.
C24_Witness ==
    /\ pc = "round-trip"
    /\ call.args[1].order = <<fa, ten, one>>
    /\ manifest.order = <<one, ten, fa>>
    /\ call.args[1].features[fa] = <<fb, fa>>
    /\ manifest.features[fa] = <<fb, fa>>
    /\ Len(manifest.metadata) = 1
    /\ manifest.metadata[1].name = fa

-----------------------------------------------------------------------------
(* Properties of interleaved calls *)

\* The frame of call i: the current one when i is running.
FrameOf(i) == IF i = call.running THEN CurrentFrame ELSE heap[i]

\* The frame still holds the arguments the call was given, and once the call
\* has returned, the result of the same call run alone.
SameAsAlone(frame, input) ==
    /\ frame.manifest = input.manifest
    /\ frame.options = input.options
    /\ frame.pc = "resolved" =>
        LET alone == ResolveFeatures(input.manifest, input.options)
        IN  /\ input.kind = "resolveFeatures"
            /\ frame.enabled = alone.enabled
            /\ frame.enabledBy = alone.enabledBy
    /\ frame.pc \in {"validated", "exited"} =>
        /\ input.kind = "validateManifest"
        /\ frame.validation = <<ValidateManifest(input.manifest, <<>>)>>
    /\ frame.pc = "tree-returned" =>
        /\ input.kind = "buildFeatureTree"
        /\ frame.tree = buildFeatureTree(input.manifest, input.options.root)

\* C23: resolution and validation calls on independent manifests share no
\* state: when the steps of two or more resolveFeatures / validateManifest /
\* buildFeatureTree calls are interleaved in any order, each call returns the
\* same result as when it runs alone, and none modifies its manifest or
\* options.
C23_NoSharedState ==
    \A i \in 1..Len(heap) : SameAsAlone(FrameOf(i), call.inputs[i])

\* validateManifest on the cycle a -> b -> a has run from entry to return
\* while a resolveFeatures call on another manifest stands in the middle of
\* enable().
C23_Witness ==
    /\ call.running = 2
    /\ call.inputs[1].kind = "resolveFeatures"
    /\ call.inputs[2].kind = "validateManifest"
    /\ call.inputs[1].manifest # call.inputs[2].manifest
    /\ Deps(manifest, fa) = <<fb>> /\ Deps(manifest, fb) = <<fa>>
    /\ pc = "validated"
    /\ ~validation[1].valid
    /\ heap[1].stack # <<>>
    /\ heap[1].enabled # {}

\* validateManifest step by step returns what it returns as one function.
ValidateManifestAlone ==
    validation # <<>> => validation[1] = ValidateManifest(manifest, voptions)

-----------------------------------------------------------------------------
(* Properties of detectCycles: the cycles returned *)

\* A closed path of the manifest: at least two elements, the last one equal
\* to the first, every element declared, every element followed by one of
\* its activation targets.
ClosedPath(m, cycle) ==
    /\ Len(cycle) >= 2
    /\ cycle[1] = cycle[Len(cycle)]
    /\ \A i \in 1..Len(cycle) : Has(m, cycle[i])
    /\ \A i \in 1..(Len(cycle) - 1) : Includes(Deps(m, cycle[i]), cycle[i + 1])

\* C27: every cycle returned by detectCycles is a genuine closed path of the
\* manifest: it has at least two elements, its first and last elements are
\* the same feature, every element is a declared feature, and each element's
\* activation list contains the element that follows it.
C27_CyclesAreClosedPaths ==
    pc = "v-external" =>
        LET cycles == detectCycles(manifest)
        IN \A i \in 1..Len(cycles) : ClosedPath(manifest, cycles[i])

\* default: [a], a: [b], b: [a]: the search enters the cycle from default and
\* returns a -> b -> a without the way in.
C27_Witness ==
    /\ pc = "v-external"
    /\ Deps(manifest, default) = <<fa>>
    /\ Deps(manifest, fa) = <<fb>>
    /\ Deps(manifest, fb) = <<fa>>
    /\ detectCycles(manifest) = <<<<fa, fb, fa>>>>

-----------------------------------------------------------------------------
(* Properties of a sequence of calls on a registry *)

\* The ids a call of the sequence names: createRegistry names the feature
\* ids its config lists to enable or to disable, the other calls the id they
\* are given.
IdsNamed(c) ==
    IF c.op = "createRegistry"
    THEN {c.args[2].enabled[i] : i \in 1..Len(c.args[2].enabled)}
         \cup {c.args[2].disabled[i] : i \in 1..Len(c.args[2].disabled)}
    ELSE {c.args[2]}

\* The ids with a state in a registry, and the ids its schema declares.
StateIds(registry) == DOMAIN registry.states
DeclaredIds(registry) == DOMAIN registry.schema.features

ValueGiven(c) ==
    IF c.op = "setFeatureState" THEN c.args[3] ELSE c.op = "enableFeature"

\* The calls after createRegistry, among the first k, that name x.
Naming(k, x) == {i \in 2..k : Calls[i].args[2] = x}

Latest(S) == CHOOSE i \in S : \A j \in S : j <= i

\* The registry the k-th call returned.
Produced(k) == heap[Calls[k].result[1]]

\* The ids asked about: declared ones, one no call names, an undeclared one.
AskedIds == {fa, fb, fc}

\* C29: after createRegistry and any sequence of enableFeature /
\* disableFeature / setFeatureState calls, each on the registry the call
\* before it returned, isEnabled(x) in the registry the k-th call returned is
\* the value set by the last of the first k calls that names x, or x's value
\* in the starting registry when none names x. It holds of the final registry
\* and, in every later state, of every intermediate one; and a call that
\* repeats the call before it returns a registry equal to its input.
C29_LastCallWins ==
    /\ \A k \in 1..Len(Calls), x \in AskedIds :
        isEnabled(Produced(k), x)
            = IF Naming(k, x) = {} THEN isEnabled(Produced(1), x)
              ELSE ValueGiven(Calls[Latest(Naming(k, x))])
    /\ \A k \in 3..Len(Calls) :
        (Calls[k].op = Calls[k - 1].op
            /\ Tail(Calls[k].args) = Tail(Calls[k - 1].args))
        => Produced(k) = Produced(k - 1)

\* a and b are declared and enabled by default; disableFeature(a), then
\* enableFeature(a) twice: a is off in the second registry, on in the third
\* and the fourth, which are equal, and b, which no call names, is on in all.
C29_Witness ==
    /\ Len(Calls) = 4
    /\ Calls[2].op = "disableFeature" /\ Calls[2].args[2] = fa
    /\ Calls[3].op = "enableFeature" /\ Calls[3].args[2] = fa
    /\ Calls[4].op = "enableFeature" /\ Calls[4].args[2] = fa
    /\ isEnabled(Produced(1), fa) /\ isEnabled(Produced(1), fb)
    /\ ~isEnabled(Produced(2), fa)
    /\ isEnabled(Produced(4), fa)
    /\ Produced(4) = Produced(3)
    /\ \A k \in 1..4 : isEnabled(Produced(k), fb)

-----------------------------------------------------------------------------
(* resolveFeatures is monotone in its selections *)

\* The options that select at least the names of o, the flags being equal.
SelectingMore(o) ==
    {more \in ResolveOptionsSet :
        /\ Range(o.features) \subseteq Range(more.features)
        /\ more.noDefaultFeatures = o.noDefaultFeatures
        /\ more.allFeatures = o.allFeatures}

\* C30: for a fixed manifest, the enabled set of a resolveFeatures call is a
\* subset of the enabled set of every call whose options.features name at
\* least the same names (other flags equal), of the call with
\* noDefaultFeatures unset, and of the call with allFeatures set.
C30_Monotone ==
    Resolved =>
        /\ \A more \in SelectingMore(options) :
            enabled \subseteq ResolveFeatures(manifest, more).enabled
        /\ enabled \subseteq
            ResolveFeatures(manifest,
                [options EXCEPT !.noDefaultFeatures = FALSE]).enabled
        /\ enabled \subseteq
            ResolveFeatures(manifest,
                [options EXCEPT !.allFeatures = TRUE]).enabled

\* default: [c], a: [b], b: [], c: [] resolved with features [a] and
\* noDefaultFeatures: a and b are enabled; the same call without
\* noDefaultFeatures enables default and c as well, as does allFeatures;
\* requesting b besides a enables no more.
C30_Witness ==
    /\ Resolved
    /\ manifest.features = (default :> <<fc>>) @@ (fa :> <<fb>>)
                            @@ (fb :> <<>>) @@ (fc :> <<>>)
    /\ options = [features |-> <<fa>>, noDefaultFeatures |-> TRUE,
                  allFeatures |-> FALSE]
    /\ enabled = {fa, fb}
    /\ ResolveFeatures(manifest,
            [options EXCEPT !.noDefaultFeatures = FALSE]).enabled
        = {default, fa, fb, fc}
    /\ ResolveFeatures(manifest,
            [options EXCEPT !.allFeatures = TRUE]).enabled
        = {default, fa, fb, fc}
    /\ ResolveFeatures(manifest,
            [options EXCEPT !.features = <<fa, fb>>]).enabled = {fa, fb}

=============================================================================
